---------------------------- MODULE Spec2Model ----------------------------
(* A model of scripts/ai_stress_report.py: the analysis pipeline that reads  *)
(* a k6 run summary, queries Prometheus and Loki, asks a text-generation     *)
(* endpoint for an assessment, merges it with a deterministic status policy  *)
(* and writes the reports.                                                   *)
(*                                                                           *)
(* Python values are modelled as tagged records (field t names the type), so *)
(* that None, numbers, strings, lists and dicts stay distinct the way they   *)
(* are at run time.  Floating point numbers read from decimal text are       *)
(* modelled as exact rationals [n, d] and compared by cross multiplication.  *)
EXTENDS Integers, Sequences, FiniteSets, TLC

VARIABLES
    pc,                 \* position of the invocation
    inputs,             \* what the files and the services answered so far
    summary,            \* the parsed k6 summary (summary.json)
    profile,            \* the resolved profile label
    k6_health,          \* health returned by read_k6_summary
    highlights,         \* result of extract_k6_highlights
    prom_queries,       \* payload["queries"] of collect_prometheus, by query index
    prom_health,        \* health of collect_prometheus
    prom_idx,           \* number of registry queries collect_prometheus has handled
    loki_payload,       \* payload of collect_loki
    loki_health,        \* health of collect_loki
    rate_limit_signals, \* result of build_rate_limit_signals
    model_analysis,     \* what call_ollama returned (first component)
    ollama_health,      \* what call_ollama returned (second component)
    analysis,           \* the Analysis after apply_status_policy
    files,              \* the artifacts written in the run directory
    error,              \* the exception that ended the invocation, and where
    metadata,           \* the run metadata held by main (metadata.json, then setdefault)
    window,             \* the time window parse_time_window returned
    root,               \* the run folders of the artifact directory, by mtime
    index_html,         \* the rows of index.html in the artifact directory
    reports,            \* the documents written by the three renderers
    CHECK_INTERVAL,     \* monitor.py: the seconds between two health checks
    monitor_log,        \* monitor.py: the last record the poller logged
    lessons,            \* agent_memory.py: the lesson files of docs/lessons, by path
    today,              \* agent_memory.py: the day dt.date.today() answers
    known_issues,       \* agent_memory.py: the issues of known-issues.md
    known_issues_archive \* agent_memory.py: the issues of known-issues-archive.md

vars == <<pc, inputs, summary, profile, k6_health, highlights, prom_queries,
          prom_health, prom_idx, loki_payload, loki_health, rate_limit_signals,
          model_analysis, ollama_health, analysis, files, error, metadata,
          window, root, index_html, reports, CHECK_INTERVAL, monitor_log,
          lessons, today, known_issues, known_issues_archive>>

\* the variables of the health poller
monitorVars == <<CHECK_INTERVAL, monitor_log>>

\* the variables of the lesson memory
issueVars == <<lessons, today, known_issues, known_issues_archive>>

\* the run metadata, its window and the artifact directory
contextVars == <<metadata, window, root, index_html, reports, monitorVars,
                 issueVars>>

\* the variables of the collectors
collectorVars == <<k6_health, highlights, prom_queries, prom_health, prom_idx,
                   loki_health>>

-----------------------------------------------------------------------------
(* Python values *)

Absent == [t |-> "absent"]   \* a key that is not in a dict
JNull == [t |-> "null"]      \* None
JNum(n, d) == [t |-> "num", n |-> n, d |-> d]   \* the number n/d, d > 0
JInt(n) == JNum(n, 1)
JStr(s) == [t |-> "str", s |-> s]
JBool(b) == [t |-> "bool", b |-> b]
JList(v) == [t |-> "list", v |-> v]
JDict(items) == [t |-> "map", items |-> items]   \* a dict of items, in order
NoValue == [t |-> "unset"]   \* a variable the invocation has not assigned yet

\* dict.get(key): None for a missing key
Get(v) == IF v = Absent THEN JNull ELSE v

\* bool(v)
Truthy(v) ==
    CASE v.t = "null" -> FALSE
      [] v.t = "absent" -> FALSE
      [] v.t = "num" -> v.n # 0
      [] v.t = "str" -> v.s # ""
      [] v.t = "bool" -> v.b
      [] v.t = "list" -> Len(v.v) > 0
      [] v.t = "dict" -> \E k \in DOMAIN v \ {"t"} : v[k] # Absent
      [] OTHER -> TRUE

\* a or b
PyOr(a, b) == IF Truthy(a) THEN a ELSE b

\* isinstance(v, (int, float)); the inputs hold no booleans in numeric places
IsNumber(v) == v.t = "num"

\* a < b and a = b on numbers n/d
RLt(a, b) == a.n * b.d < b.n * a.d
REq(a, b) == a.n * b.d = b.n * a.d

-----------------------------------------------------------------------------
(* _parse_failure_threshold_from_summary: the regular expression            *)
(* rate\s*<\s*([\d.]+) with re.IGNORECASE, searched in each threshold        *)
(* expression, and float() of the group.  An expression is a sequence of     *)
(* one-character strings.                                                    *)

Whitespace == {" ", "\t"}
DigitChars == {"0", "1", "2", "3", "4", "5", "6", "7", "8", "9"}

DigitVal(c) ==
    CASE c = "0" -> 0 [] c = "1" -> 1 [] c = "2" -> 2 [] c = "3" -> 3
      [] c = "4" -> 4 [] c = "5" -> 5 [] c = "6" -> 6 [] c = "7" -> 7
      [] c = "8" -> 8 [] c = "9" -> 9

\* re.IGNORECASE on the letters of "rate"
LowerChar(c) ==
    CASE c = "R" -> "r" [] c = "A" -> "a" [] c = "T" -> "t" [] c = "E" -> "e"
      [] OTHER -> c

RECURSIVE SkipWhitespace(_, _)
SkipWhitespace(s, i) ==
    IF i <= Len(s) /\ s[i] \in Whitespace THEN SkipWhitespace(s, i + 1) ELSE i

RECURSIVE NumberRunEnd(_, _)
NumberRunEnd(s, i) ==
    IF i <= Len(s) /\ s[i] \in (DigitChars \cup {"."})
    THEN NumberRunEnd(s, i + 1) ELSE i

NoMatch == [found |-> FALSE, group |-> <<>>]

\* the pattern matched with "rate" starting at position i
MatchAt(s, i) ==
    LET lit == /\ i + 3 <= Len(s)
               /\ <<LowerChar(s[i]), LowerChar(s[i + 1]),
                    LowerChar(s[i + 2]), LowerChar(s[i + 3])>>
                      = <<"r", "a", "t", "e">>
        j == SkipWhitespace(s, i + 4)
        k == SkipWhitespace(s, j + 1)
        e == NumberRunEnd(s, k)
    IN  IF lit /\ j <= Len(s) /\ s[j] = "<" /\ e > k
        THEN [found |-> TRUE, group |-> SubSeq(s, k, e - 1)]
        ELSE NoMatch

\* re.search: the leftmost match
RECURSIVE SearchFrom(_, _)
SearchFrom(s, i) ==
    IF i > Len(s) THEN NoMatch
    ELSE IF MatchAt(s, i).found THEN MatchAt(s, i)
    ELSE SearchFrom(s, i + 1)

re_search(s) == SearchFrom(s, 1)

CountDots(g) == Cardinality({i \in 1..Len(g) : g[i] = "."})

RECURSIVE Pow10(_)
Pow10(k) == IF k = 0 THEN 1 ELSE 10 * Pow10(k - 1)

\* the integer written by the digits of g, the dot left out
RECURSIVE DigitsValue(_)
DigitsValue(g) ==
    IF g = <<>> THEN 0
    ELSE IF g[Len(g)] = "." THEN DigitsValue(SubSeq(g, 1, Len(g) - 1))
    ELSE 10 * DigitsValue(SubSeq(g, 1, Len(g) - 1)) + DigitVal(g[Len(g)])

DotPos(g) == CHOOSE i \in 1..Len(g) : g[i] = "."

\* float(g) for g made of digits and dots: ValueError unless g has a digit
\* and at most one dot
FloatOk(g) == CountDots(g) <= 1 /\ Len(g) > CountDots(g)

FloatOf(g) ==
    JNum(DigitsValue(g), IF CountDots(g) = 0 THEN 1 ELSE Pow10(Len(g) - DotPos(g)))

\* the loop over thresholds.items(): the first expression that matches and
\* converts decides; a ValueError moves on to the next expression
RECURSIVE ParseThresholds(_)
ParseThresholds(exprs) ==
    IF exprs = <<>> THEN JNull
    ELSE LET m == re_search(Head(exprs))
         IN  IF m.found /\ FloatOk(m.group) THEN FloatOf(m.group)
             ELSE ParseThresholds(Tail(exprs))

EmptyMetric ==
    [t |-> "dict", values |-> Absent, rate |-> Absent, value |-> Absent,
     thresholds |-> Absent]

\* metrics.get("http_req_failed") or {}
HttpFailedMetric(s) ==
    IF s.http_req_failed = Absent THEN EmptyMetric ELSE s.http_req_failed

_parse_failure_threshold_from_summary(s) ==
    LET m == HttpFailedMetric(s)
    IN  IF m.thresholds = Absent THEN JNull ELSE ParseThresholds(m.thresholds.items)

-----------------------------------------------------------------------------
(* Static registries *)

CANONICAL_WRITE_CHECKS ==
    <<"create post status 201", "comment status ok",
      "friend request status acceptable", "dm send status acceptable">>

\* PROFILE_FAILURE_THRESHOLDS.get(profile, 0.08)
PROFILE_FAILURE_THRESHOLDS(p) ==
    CASE p = "low" -> JNum(5, 100)
      [] p = "medium" -> JNum(8, 100)
      [] p = "high" -> JNum(10, 100)
      [] p = "extreme" -> JNum(12, 100)
      [] p = "insane" -> JNum(15, 100)
      [] OTHER -> JNum(8, 100)

\* the literal 0.20 of the pass-rate comparisons
SevereThreshold == JNum(20, 100)

-----------------------------------------------------------------------------
(* _extract_root_group_checks *)

\* data.get(key, 0) or 0
CountOf(v) == IF Truthy(Get(v)) THEN v.n ELSE 0

PassRateBuggy(passes, fails) ==
    IF passes + fails # 0 THEN JNum(passes, passes + fails) ELSE JNum(0, 1)

\* (passes / total) if total else 1.0
PassRate(passes, fails) ==
    IF passes + fails # 0 THEN JNum(passes, passes + fails) ELSE JNum(1, 1)

CheckResult(data) ==
    [passes |-> CountOf(data.passes), fails |-> CountOf(data.fails),
     pass_rate |-> PassRate(CountOf(data.passes), CountOf(data.fails))]

\* s.checks is root_group.checks: Absent, or a dict whose items map the check
\* names to Absent (no such key) or the check's data; data that is no dict is
\* skipped
_extract_root_group_checks(s) ==
    IF s.checks = Absent THEN [name \in {} |-> Absent]
    ELSE [name \in {x \in DOMAIN s.checks.items :
                        /\ s.checks.items[x] # Absent
                        /\ s.checks.items[x].t = "dict"}
            |-> CheckResult(s.checks.items[name])]

-----------------------------------------------------------------------------
(* build_rate_limit_signals *)

\* lines 296-304: the observed failure rate
ObservedFailedRate(s) ==
    LET http_failed == HttpFailedMetric(s)
        from_values ==
            IF http_failed.values.t = "dict"
            THEN PyOr(Get(http_failed.values.rate), Get(http_failed.values.value))
            ELSE JNull
    IN  IF from_values = JNull /\ IsNumber(Get(http_failed.value))
        THEN http_failed.value
        ELSE from_values

ResolveThresholdBuggy(s, p) == PROFILE_FAILURE_THRESHOLDS(p)

\* lines 306-308: the declared threshold, else the profile default
ResolveThreshold(s, p) ==
    IF _parse_failure_threshold_from_summary(s) = JNull
    THEN PROFILE_FAILURE_THRESHOLDS(p)
    ELSE _parse_failure_threshold_from_summary(s)

SeverelyConstrainedBuggy(rec) ==
    RLt(rec.pass_rate, SevereThreshold) \/ REq(rec.pass_rate, SevereThreshold)

\* rec.get("pass_rate", 1) < 0.20
SeverelyConstrained(rec) == RLt(rec.pass_rate, SevereThreshold)

EndpointOf(name) ==
    CASE name = "create post status 201" -> "POST /api/posts"
      [] name = "comment status ok" -> "POST /api/posts/:id/comments"
      [] name = "friend request status acceptable" -> "POST /api/friends/requests/:id"
      [] name = "dm send status acceptable" -> "POST /api/conversations/:id/messages"

\* lines 313-323
CriticalWriteChecks(per_check) ==
    LET present == SelectSeq(CANONICAL_WRITE_CHECKS,
                             LAMBDA n : n \in DOMAIN per_check)
    IN  [i \in 1..Len(present) |->
            [check_name |-> present[i], passes |-> per_check[present[i]].passes,
             fails |-> per_check[present[i]].fails,
             pass_rate |-> per_check[present[i]].pass_rate]]

\* lines 325-333: one endpoint per severely constrained canonical check
LikelyRateLimitedEndpoints(checks) ==
    LET severe == SelectSeq(checks, SeverelyConstrained)
    IN  [i \in 1..Len(severe) |-> EndpointOf(severe[i].check_name)]

\* line 310-311
RateLimitEntryCount(loki) ==
    Cardinality({i \in 1..Len(loki.entries) : loki.entries[i].category = "rate_limit"})

build_rate_limit_signals(s, p, loki) ==
    LET checks == CriticalWriteChecks(_extract_root_group_checks(s))
    IN  [http_req_failed_rate |-> ObservedFailedRate(s),
         http_req_failed_threshold |-> ResolveThreshold(s, p),
         loki_rate_limit_entry_count |-> RateLimitEntryCount(loki),
         critical_write_checks |-> checks,
         likely_rate_limited_endpoints |-> LikelyRateLimitedEndpoints(checks)]

-----------------------------------------------------------------------------
(* apply_status_policy *)

\* the outcome of a call: the exception it raised, or the value it returned
Raised(exc) == [exc |-> exc, value |-> NoValue]
Returned(v) == [exc |-> "", value |-> v]

NoError == [exc |-> "", in |-> ""]
ErrorIn(exc, function) == [exc |-> exc, in |-> IF exc = "" THEN "" ELSE function]

\* line 372: rate_limit_signals.get("http_req_failed_threshold") or the default
PolicyThreshold(signals, p) ==
    PyOr(signals.http_req_failed_threshold, PROFILE_FAILURE_THRESHOLDS(p))

\* lines 373-376
RateReasons(signals, p) ==
    IF /\ signals.http_req_failed_rate # JNull
       /\ RLt(PolicyThreshold(signals, p), signals.http_req_failed_rate)
    THEN <<[kind |-> "rate", rate |-> signals.http_req_failed_rate,
            threshold |-> PolicyThreshold(signals, p)]>>
    ELSE <<>>

\* lines 378-382
CheckReasons(signals) ==
    LET severe == SelectSeq(signals.critical_write_checks, SeverelyConstrained)
    IN  [i \in 1..Len(severe) |->
            [kind |-> "check", check_name |-> severe[i].check_name,
             pass_rate |-> severe[i].pass_rate]]

DeterministicReasonsBuggy(signals, p) == RateReasons(signals, p)

DeterministicReasons(signals, p) == RateReasons(signals, p) \o CheckReasons(signals)

DeterministicStatus(signals, p) ==
    IF DeterministicReasons(signals, p) = <<>> THEN "HEALTHY" ELSE "CRITICAL"

\* str.upper() on the status strings of the inputs
Upper(s) ==
    CASE s = "healthy" -> "HEALTHY"
      [] s = "warning" -> "WARNING"
      [] s = "critical" -> "CRITICAL"
      [] s = "Critical" -> "CRITICAL"
      [] s = "bogus" -> "BOGUS"
      [] s = "high" -> "HIGH"
      [] OTHER -> s

severity_order(s) ==
    CASE s = "HEALTHY" -> 0 [] s = "WARNING" -> 1 [] s = "CRITICAL" -> 2

\* lines 385-387: raises AttributeError when the status is truthy and no str
ModelStatusRaises(m) == Truthy(m.status) /\ m.status.t # "str"

ModelStatus(m) ==
    LET raw == IF Truthy(m.status) THEN Upper(m.status.s) ELSE "WARNING"
    IN  IF raw \in {"HEALTHY", "WARNING", "CRITICAL"} THEN raw ELSE "WARNING"

FinalStatusBuggy(model_status, deterministic_status) ==
    IF severity_order(model_status) <= severity_order(deterministic_status)
    THEN model_status ELSE deterministic_status

\* line 388
FinalStatus(model_status, deterministic_status) ==
    IF severity_order(model_status) >= severity_order(deterministic_status)
    THEN model_status ELSE deterministic_status

\* lines 389-392: list(findings) raises TypeError unless findings is iterable
AppendsFinding(m, signals, p) ==
    /\ DeterministicStatus(signals, p) = "CRITICAL"
    /\ FinalStatus(ModelStatus(m), DeterministicStatus(signals, p)) = "CRITICAL"
    /\ DeterministicReasons(signals, p) # <<>>

FindingsRaise(m) == m.findings.t \notin {"absent", "list"}

PolicyFinding(signals, p) ==
    [src |-> "policy", reasons |-> DeterministicReasons(signals, p)]

FindingsAfterBuggy(m, signals, p) ==
    IF AppendsFinding(m, signals, p)
    THEN JList(<<PolicyFinding(signals, p)>>)
    ELSE m.findings

FindingsAfter(m, signals, p) ==
    IF AppendsFinding(m, signals, p)
    THEN JList((IF m.findings = Absent THEN <<>> ELSE m.findings.v)
               \o <<PolicyFinding(signals, p)>>)
    ELSE m.findings

apply_status_policyBuggy(m, signals, p) ==
    IF ModelStatusRaises(m) THEN Raised("AttributeError")
    ELSE IF AppendsFinding(m, signals, p) /\ FindingsRaise(m) THEN Raised("TypeError")
    ELSE Returned(
        m @@
        [deterministic_status |-> DeterministicStatus(signals, p),
         deterministic_reasons |-> DeterministicReasons(signals, p),
         rate_limit_signals |-> signals,
         status |-> JStr(FinalStatus(ModelStatus(m), DeterministicStatus(signals, p))),
         findings |-> FindingsAfter(m, signals, p)])

\* lines 364-397: the keys the policy assigns replace those of the analysis
apply_status_policy(m, signals, p) ==
    IF ModelStatusRaises(m) THEN Raised("AttributeError")
    ELSE IF AppendsFinding(m, signals, p) /\ FindingsRaise(m) THEN Raised("TypeError")
    ELSE Returned(
        [deterministic_status |-> DeterministicStatus(signals, p),
         deterministic_reasons |-> DeterministicReasons(signals, p),
         rate_limit_signals |-> signals,
         status |-> JStr(FinalStatus(ModelStatus(m), DeterministicStatus(signals, p))),
         findings |-> FindingsAfter(m, signals, p)] @@ m)

-----------------------------------------------------------------------------
(* Inputs of the signal builder and the status policy *)

\* the largest number of checks a summary of the inputs lists at once
MaxChecks == 2

\* threshold expressions as the load generator writes them, each with the
\* value X it declares when it has the form rate < X (JNull otherwise)
ThresholdCases ==
    { [text |-> <<"r", "a", "t", "e", "<", "0", ".", "0", "8">>,
       declared |-> JNum(8, 100)],
      [text |-> <<"r", "a", "t", "e", " ", "<", " ", "0", ".", "1", "0">>,
       declared |-> JNum(10, 100)],
      [text |-> <<"r", "a", "t", "e", "<", "0">>, declared |-> JNum(0, 1)],
      [text |-> <<"R", "A", "T", "E", "<", "0", ".", "0", "5">>,
       declared |-> JNum(5, 100)],
      [text |-> <<"r", "a", "t", "e", "<", "=", "0", ".", "0", "8">>,
       declared |-> JNull],
      [text |-> <<"p", "(", "9", "5", ")", "<", "5", "0", "0">>,
       declared |-> JNull],
      [text |-> <<"r", "a", "t", "e", "<", ".", "5", ".">>, declared |-> JNull] }

Texts(declared) == {c.text : c \in {x \in ThresholdCases : x.declared = declared}}
NonRateTexts == Texts(JNull)
RateTexts == {c.text : c \in ThresholdCases} \ NonRateTexts

\* the thresholds mapping of the http_req_failed metric, in file order
ThresholdInputs ==
    {Absent} \cup
    {JDict(e) : e \in {<<>>} \cup {<<x>> : x \in RateTexts \cup NonRateTexts}
                  \cup {<<x, y>> : x \in NonRateTexts, y \in Texts(JNum(8, 100))}}

RateValueInputs == {Absent, JNum(0, 1), JNum(3, 100), JNum(12, 100)}

FailedMetricInputs ==
    {Absent} \cup
    [t : {"dict"},
     values : {Absent} \cup [t : {"dict"}, rate : RateValueInputs,
                             value : {Absent, JNum(6, 100)}],
     rate : {Absent, JNum(12, 100)},
     value : {Absent, JNum(9, 100)},
     thresholds : ThresholdInputs]

CheckNames ==
    {CANONICAL_WRITE_CHECKS[i] : i \in 1..Len(CANONICAL_WRITE_CHECKS)}
      \cup {"login status 200"}

CountInputs == {<<JInt(5), JInt(95)>>, <<JInt(1), JInt(4)>>, <<JInt(0), JInt(0)>>,
                <<JNull, JInt(3)>>, <<JInt(2), Absent>>}

CheckDataInputs ==
    {JInt(7)} \cup {[t |-> "dict", passes |-> c[1], fails |-> c[2]] : c \in CountInputs}

\* root_group.checks with at most MaxChecks checks
ChecksInputs ==
    {Absent} \cup
    {JDict(f) : f \in {g \in [CheckNames -> {Absent} \cup CheckDataInputs] :
                        Cardinality({n \in CheckNames : g[n] # Absent}) <= MaxChecks}}

\* a summary: metrics.http_req_failed, root_group.checks and metrics.checks
Summary(failed, checks) ==
    [t |-> "dict", http_req_failed |-> failed, checks |-> checks,
     checks_metric |-> Absent]

ChecksMetricInputs ==
    {m \in FailedMetricInputs : m # Absent /\ m.thresholds = Absent}

\* summaries that vary the failure metric, summaries that vary the checks,
\* and summaries that vary the checks metric
SummaryInputs ==
    {Summary(m, Absent) : m \in FailedMetricInputs}
      \cup {Summary(m, c) : m \in {Absent}, c \in ChecksInputs}
      \cup {[Summary(Absent, Absent) EXCEPT !.checks_metric = m] :
                m \in ChecksMetricInputs}

ProfileInputs == {"low", "insane", "nightly"}

LokiEntry(category) == [category |-> category, line |-> "request processed"]
LokiPayload(entries, counts) == [entries |-> entries, entry_counts |-> counts]

LokiInputs ==
    {LokiPayload(<<>>, <<0, 0>>),
     LokiPayload(<<LokiEntry("severity"), LokiEntry("rate_limit")>>, <<1, 1>>)}

ModelFinding(text) == [src |-> "model", text |-> text]

StatusInputs ==
    {Absent, JNull, JStr(""), JStr("HEALTHY"), JStr("WARNING"), JStr("CRITICAL"),
     JStr("critical"), JStr("UNKNOWN"), JInt(0), JInt(5), JBool(TRUE),
     JList(<<JStr("CRITICAL")>>)}

FindingsInputs ==
    {Absent, JNull, JInt(3), JList(<<>>), JList(<<ModelFinding("slow writes")>>),
     JList(<<ModelFinding("slow writes"), ModelFinding("db saturated")>>)}

ModelAnalysis(status, findings) ==
    [t |-> "dict", status |-> status, findings |-> findings]

ModelAnalysisInputs ==
    {ModelAnalysis(s, JList(<<ModelFinding("slow writes")>>)) : s \in StatusInputs}
      \cup {ModelAnalysis(s, f) : s \in {JStr("HEALTHY"), JStr("CRITICAL")},
                                  f \in FindingsInputs}

-----------------------------------------------------------------------------
(* extract_k6_highlights *)

\* line 233: metrics.get(metric_name, {}); line 230 for a summary that is
\* not a dict
MetricOf(s, name) ==
    IF s.t = "dict" /\ s[name] # Absent THEN s[name] ELSE EmptyMetric

\* metric_value of extract_k6_highlights
metric_value(metric, field) ==
    LET from_values ==
            IF metric.values.t = "dict" THEN Get(metric.values[field]) ELSE JNull
        value == IF from_values = JNull THEN Get(metric[field]) ELSE from_values
    IN  IF IsNumber(value) THEN value ELSE JNull

\* lines 246-247
extract_k6_highlights(s) ==
    [http_req_failed_rate |->
        PyOr(metric_value(MetricOf(s, "http_req_failed"), "rate"),
             metric_value(MetricOf(s, "http_req_failed"), "value")),
     checks_pass_rate |->
        PyOr(metric_value(MetricOf(s, "checks_metric"), "rate"),
             metric_value(MetricOf(s, "checks_metric"), "value"))]

-----------------------------------------------------------------------------
(* The signal builder and the status policy applied to the inputs *)

NoHealth == [status |-> "unset", error |-> ""]

NoInputs ==
    [summary_file |-> "", prometheus |-> <<>>, loki |-> <<>>, ollama |-> NoValue,
     metadata_file |-> NoValue, now |-> NoValue, run_dir_arg |-> "",
     run_dir |-> NoValue, args_profile |-> "", env |-> NoValue]

Idle ==
    /\ inputs = NoInputs
    /\ k6_health = NoHealth
    /\ highlights = NoValue
    /\ prom_queries = <<>>
    /\ prom_health = NoHealth
    /\ prom_idx = 0
    /\ loki_health = NoHealth
    /\ ollama_health = NoHealth
    /\ files = {}
    /\ metadata = NoValue
    /\ window = NoValue
    /\ index_html = NoValue
    /\ reports = {}
    /\ CHECK_INTERVAL = NoValue
    /\ monitor_log = NoValue
    /\ lessons = <<>>
    /\ today = 0
    /\ known_issues = <<>>
    /\ known_issues_archive = <<>>

InitPolicy ==
    /\ pc = "highlights"
    /\ root = NoValue
    /\ summary \in SummaryInputs
    /\ profile = ""
    /\ loki_payload = NoValue
    /\ rate_limit_signals = NoValue
    /\ model_analysis = NoValue
    /\ analysis = NoValue
    /\ error = NoError
    /\ Idle

\* main line 823
PolicyHighlights ==
    /\ pc = "highlights"
    /\ highlights' = extract_k6_highlights(summary)
    /\ pc' = "signals"
    /\ UNCHANGED <<inputs, summary, profile, k6_health, prom_queries, prom_health,
                   prom_idx, loki_payload, loki_health, rate_limit_signals,
                   model_analysis, ollama_health, analysis, files, error>>
    /\ UNCHANGED contextVars

PolicyBuildSignals ==
    /\ pc = "signals"
    /\ \E p \in ProfileInputs, loki \in LokiInputs :
        /\ profile' = p
        /\ loki_payload' = loki
        /\ rate_limit_signals' = build_rate_limit_signals(summary, p, loki)
    /\ pc' = "policy"
    /\ UNCHANGED <<inputs, summary, collectorVars, model_analysis, ollama_health,
                   analysis, files, error>>
    /\ UNCHANGED contextVars

PolicyApply ==
    /\ pc = "policy"
    /\ \E m \in ModelAnalysisInputs :
        LET r == apply_status_policy(m, rate_limit_signals, profile)
        IN  /\ model_analysis' = m
            /\ analysis' = r.value
            /\ error' = ErrorIn(r.exc, "apply_status_policy")
            /\ pc' = IF r.exc = "" THEN "merged" ELSE "raised"
    /\ UNCHANGED <<inputs, summary, profile, collectorVars, loki_payload,
                   rate_limit_signals, ollama_health, files>>
    /\ UNCHANGED contextVars

NextPolicy == PolicyHighlights \/ PolicyBuildSignals \/ PolicyApply

SpecPolicy == InitPolicy /\ [][NextPolicy]_vars

-----------------------------------------------------------------------------
(* Properties of the status policy and the signal builder (SpecPolicy) *)

Levels == {"HEALTHY", "WARNING", "CRITICAL"}

\* a is at least as severe as b, in the order HEALTHY < WARNING < CRITICAL
AtLeastAsSevere(a, b) ==
    <<a, b>> \in {<<"HEALTHY", "HEALTHY">>, <<"WARNING", "HEALTHY">>,
                  <<"WARNING", "WARNING">>, <<"CRITICAL", "HEALTHY">>,
                  <<"CRITICAL", "WARNING">>, <<"CRITICAL", "CRITICAL">>}

Merged == pc = "merged"
PolicyEnded == pc \in {"merged", "raised"}
SignalsBuilt == pc \in {"policy", "merged", "raised"}

\* C1: for a model status M among the three levels and the deterministic
\* status D, the final status is M when M is at least as severe as D and D
\* otherwise, so it is never less severe than D.
C1_MergeIsMonotonic ==
    (Merged /\ model_analysis.status \in {JStr(l) : l \in Levels}) =>
        LET M == model_analysis.status.s
            D == analysis.deterministic_status
            F == analysis.status.s
        IN  /\ D \in Levels
            /\ F = (IF AtLeastAsSevere(M, D) THEN M ELSE D)
            /\ AtLeastAsSevere(F, D)

\* C1 witness: a CRITICAL model status over a HEALTHY deterministic status is
\* accepted unchanged.
C1_Witness ==
    /\ Merged
    /\ model_analysis.status = JStr("CRITICAL")
    /\ analysis.deterministic_status = "HEALTHY"
    /\ analysis.status = JStr("CRITICAL")

\* the status strings the policy recognizes, in either case
RecognizedStatus(v) == v.t = "str" /\ Upper(v.s) \in Levels

\* C2: a model status that is absent, empty or not a recognized level, of
\* whatever type, is merged as WARNING and the merge does not raise.
C2_UnrecognizedStatusMergesAsWarning ==
    (PolicyEnded /\ ~RecognizedStatus(model_analysis.status)) =>
        /\ Merged
        /\ analysis.status.s \in Levels
        /\ analysis.status.s =
              (IF AtLeastAsSevere("WARNING", analysis.deterministic_status)
               THEN "WARNING" ELSE analysis.deterministic_status)

\* the observed failure rate exceeds the resolved threshold of the signals
RateExceedsResolved ==
    /\ rate_limit_signals.http_req_failed_rate # JNull
    /\ RLt(rate_limit_signals.http_req_failed_threshold,
           rate_limit_signals.http_req_failed_rate)

HasRateReason(a) ==
    \E i \in 1..Len(a.deterministic_reasons) : a.deterministic_reasons[i].kind = "rate"

\* C3: when the observed failure rate exceeds the resolved threshold, the
\* deterministic status is CRITICAL with a failure-rate reason and the final
\* status is CRITICAL, whatever status the model reported.
C3_RateOverThresholdIsCritical ==
    (Merged /\ RateExceedsResolved) =>
        /\ analysis.deterministic_status = "CRITICAL"
        /\ HasRateReason(analysis)
        /\ analysis.status = JStr("CRITICAL")

\* the counts of a canonical check as the summary file holds them
RawCount(v) == IF v \in {Absent, JNull} THEN 0 ELSE v.n
RawData(name) == IF summary.checks = Absent THEN Absent ELSE summary.checks.items[name]
RawPresent(name) == RawData(name) # Absent /\ RawData(name).t = "dict"
RawTotal(name) == RawCount(RawData(name).passes) + RawCount(RawData(name).fails)
RawBelowFifth(name) ==
    /\ RawPresent(name)
    /\ RawTotal(name) > 0
    /\ 5 * RawCount(RawData(name).passes) < RawTotal(name)

CanonicalIndex(endpoint) ==
    CHOOSE i \in 1..Len(CANONICAL_WRITE_CHECKS) :
        EndpointOf(CANONICAL_WRITE_CHECKS[i]) = endpoint

Endpoints == rate_limit_signals.likely_rate_limited_endpoints

\* C4: a canonical write check with pass rate below 0.20 makes the
\* deterministic status CRITICAL and puts its endpoint among the inferred
\* throttled endpoints; any other check contributes no endpoint; the
\* endpoints are in canonical check order.
C4_SevereCheckIsCriticalWithEndpoint ==
    SignalsBuilt =>
        /\ \A i \in 1..Len(CANONICAL_WRITE_CHECKS) :
            LET name == CANONICAL_WRITE_CHECKS[i]
                listed == \E k \in 1..Len(Endpoints) : Endpoints[k] = EndpointOf(name)
            IN  /\ listed <=> RawBelowFifth(name)
                /\ (Merged /\ RawBelowFifth(name)) =>
                        analysis.deterministic_status = "CRITICAL"
        /\ Len(Endpoints) <= Len(CANONICAL_WRITE_CHECKS)
        /\ \A k \in 1..Len(Endpoints) :
            /\ \E i \in 1..Len(CANONICAL_WRITE_CHECKS) :
                  Endpoints[k] = EndpointOf(CANONICAL_WRITE_CHECKS[i])
            /\ \A l \in 1..Len(Endpoints) :
                  k < l => CanonicalIndex(Endpoints[k]) < CanonicalIndex(Endpoints[l])

\* C4 witness: passes=5, fails=95 on "create post status 201".
C4_Witness ==
    /\ Merged
    /\ RawPresent("create post status 201")
    /\ RawData("create post status 201").passes = JInt(5)
    /\ RawData("create post status 201").fails = JInt(95)
    /\ analysis.deterministic_status = "CRITICAL"
    /\ \E k \in 1..Len(Endpoints) : Endpoints[k] = "POST /api/posts"

\* C5: each check record has pass_rate exactly 1.0 when passes+fails = 0 and
\* passes/(passes+fails) otherwise, with missing or null counts read as 0, so
\* the pass rate lies in [0,1].
C5_PassRateDefinition ==
    SignalsBuilt =>
        LET per_check == _extract_root_group_checks(summary)
            RecordOk(rec, name) ==
                /\ rec.passes = RawCount(RawData(name).passes)
                /\ rec.fails = RawCount(RawData(name).fails)
                /\ rec.pass_rate.d > 0
                /\ IF rec.passes + rec.fails = 0
                   THEN rec.pass_rate.n = rec.pass_rate.d
                   ELSE rec.pass_rate.n * (rec.passes + rec.fails)
                            = rec.passes * rec.pass_rate.d
                /\ 0 <= rec.pass_rate.n
                /\ rec.pass_rate.n <= rec.pass_rate.d
        IN  /\ \A name \in DOMAIN per_check : RecordOk(per_check[name], name)
            /\ \A i \in 1..Len(rate_limit_signals.critical_write_checks) :
                  LET rec == rate_limit_signals.critical_write_checks[i]
                  IN  RecordOk(rec, rec.check_name)

\* C5 witness: a listed check with no observations and one with a null count.
C5_Witness ==
    /\ SignalsBuilt
    /\ \E i, j \in 1..Len(rate_limit_signals.critical_write_checks) :
        LET a == rate_limit_signals.critical_write_checks[i]
            b == rate_limit_signals.critical_write_checks[j]
        IN  /\ a.passes + a.fails = 0
            /\ a.pass_rate = JNum(1, 1)
            /\ RawData(b.check_name).passes = JNull
            /\ b.passes = 0
            /\ b.fails = 3

\* the value X of the first declared expression of the form rate < X
DeclaredIn(text) == (CHOOSE c \in ThresholdCases : c.text = text).declared
RECURSIVE FirstDeclared(_)
FirstDeclared(exprs) ==
    IF exprs = <<>> THEN JNull
    ELSE IF DeclaredIn(Head(exprs)) # JNull THEN DeclaredIn(Head(exprs))
    ELSE FirstDeclared(Tail(exprs))

DeclaredThreshold ==
    IF summary.http_req_failed = Absent \/ summary.http_req_failed.thresholds = Absent
    THEN JNull
    ELSE FirstDeclared(summary.http_req_failed.thresholds.items)

-----------------------------------------------------------------------------
(* read_json_file, read_k6_summary *)

Ok == [status |-> "ok", error |-> ""]
Degraded(message) == [status |-> "degraded", error |-> message]

EmptySummary == Summary(Absent, Absent)   \* the default {} and the file {}

\* a file is absent, unreadable (OSError), not UTF-8, not JSON, or holds a
\* JSON value; only JSONDecodeError and OSError are caught
read_json_file(file, default) ==
    CASE file.kind = "absent" -> Returned(default)
      [] file.kind = "unreadable" -> Returned(default)
      [] file.kind = "malformed" -> Returned(default)
      [] file.kind = "undecodable" -> Raised("UnicodeDecodeError")
      [] file.kind = "json" -> Returned(file.value)

\* lines 222-225
K6Health(s) ==
    IF ~Truthy(s) THEN Degraded("Missing or invalid summary.json") ELSE Ok

read_k6_summary(file) ==
    LET r == read_json_file(file, EmptySummary)
    IN  IF r.exc # "" THEN r
        ELSE Returned([summary |-> r.value, health |-> K6Health(r.value)])

-----------------------------------------------------------------------------
(* collect_prometheus *)

DEFAULT_PROM_QUERIES ==
    <<"request_rate_rps", "error_rate_ratio", "p95_latency_seconds",
      "active_websockets", "ws_connections_total", "ws_backpressure_drops_5m",
      "db_p95_seconds", "message_throughput_rps">>

\* what the two requests of one registry query do: both succeed, the ranged
\* request raises RequestException, or the instantaneous one does
PromOutcomes == {"ok", "range_failed", "instant_failed"}

\* lines 131-138: the entry of one query; range and instant are set only
\* after both requests returned
PromEntry(name, outcome) ==
    [name |-> name,
     range |-> outcome = "ok",
     instant |-> outcome = "ok",
     error |-> IF outcome = "ok" THEN "" ELSE "request failed"]

PromHealthAfterBuggy(health, outcome) ==
    IF outcome = "ok" THEN Ok ELSE Degraded("Prometheus query failure")

\* lines 139-140
PromHealthAfter(health, outcome) ==
    IF outcome = "ok" THEN health ELSE Degraded("Prometheus query failure")

\* the for loop of lines 130-141 over a pattern of outcomes, one per query
RECURSIVE PromLoop(_, _, _)
PromLoop(queries, health, outcomes) ==
    IF Len(queries) = Len(outcomes) THEN [queries |-> queries, health |-> health]
    ELSE LET i == Len(queries) + 1
         IN  PromLoop(Append(queries, PromEntry(DEFAULT_PROM_QUERIES[i], outcomes[i])),
                      PromHealthAfter(health, outcomes[i]), outcomes)

collect_prometheus(outcomes) == PromLoop(<<>>, Ok, outcomes)

-----------------------------------------------------------------------------
(* collect_loki *)

\* the largest number of lines one Loki query returns in the inputs
MaxLokiLines == 1

LOKI_QUERIES == <<"severity", "rate_limit">>

LokiFailed == [ok |-> FALSE, lines |-> 0]
LokiOutcomes == {LokiFailed} \cup {[ok |-> TRUE, lines |-> n] : n \in 0..MaxLokiLines}

LokiPartBuggy(name, outcome) ==
    [i \in 1..(IF outcome.ok THEN outcome.lines ELSE 0) |-> LokiEntry("severity")]

\* lines 205-214 for one query: its entries, each tagged with the category
LokiPart(name, outcome) ==
    [i \in 1..(IF outcome.ok THEN outcome.lines ELSE 0) |-> LokiEntry(name)]

LokiHealthAfter(health, outcome) ==
    IF outcome.ok THEN health ELSE Degraded("Loki query failure")

RECURSIVE LokiLoop(_, _, _)
LokiLoop(payload, health, outcomes) ==
    IF Len(payload.entry_counts) = Len(outcomes)
    THEN [payload |-> payload, health |-> health]
    ELSE LET i == Len(payload.entry_counts) + 1
             part == LokiPart(LOKI_QUERIES[i], outcomes[i])
         IN  LokiLoop(LokiPayload(payload.entries \o part,
                                  Append(payload.entry_counts, Len(part))),
                      LokiHealthAfter(health, outcomes[i]), outcomes)

collect_loki(outcomes) == LokiLoop(LokiPayload(<<>>, <<>>), Ok, outcomes)

-----------------------------------------------------------------------------
(* parse_model_json, call_ollama, default_ai_analysis *)

Invalid == [t |-> "invalid"]        \* text that json.loads rejects
EmptyDict == ModelAnalysis(Absent, Absent)   \* {}

\* The text of the model: blank after strip() or not; the value json.loads
\* gives for the whole text (Invalid when it raises); whether the pattern
\* \{[\s\S]*\} finds a span, and the value json.loads gives for that span.
Text(blank, json, braces, span_json) ==
    [t |-> "str", blank |-> blank, json |-> json, braces |-> braces,
     span_json |-> span_json]

parse_model_json(text) ==
    IF text.blank THEN EmptyDict
    ELSE IF text.json # Invalid THEN text.json
    ELSE IF ~text.braces THEN EmptyDict
    ELSE IF text.span_json # Invalid THEN text.span_json
    ELSE EmptyDict

\* The answer of the endpoint: a request that raises RequestException (no
\* connection, timeout, non-2xx status, a body that is not JSON), or a body
\* that is a JSON value.
RequestFailures == {"connection_error", "timeout", "http_error", "body_not_json"}

call_ollamaBuggy(response) ==
    IF response.kind \in RequestFailures
    THEN Returned([parsed |-> EmptyDict, health |-> Degraded("Ollama request failure")])
    ELSE IF response.body.t # "dict" THEN Raised("AttributeError")
    ELSE LET raw_text == IF response.body.response = Absent
                         THEN Text(TRUE, Invalid, FALSE, Invalid)
                         ELSE response.body.response
         IN  IF raw_text.t # "str" THEN Raised("AttributeError")
             ELSE Returned([parsed |-> parse_model_json(raw_text), health |-> Ok])

\* lines 430-455
call_ollama(response) ==
    IF response.kind \in RequestFailures
    THEN Returned([parsed |-> EmptyDict, health |-> Degraded("Ollama request failure")])
    ELSE IF response.body.t # "dict" THEN Raised("AttributeError")
    ELSE LET raw_text == IF response.body.response = Absent
                         THEN Text(TRUE, Invalid, FALSE, Invalid)
                         ELSE response.body.response
         IN  IF raw_text.t # "str" THEN Raised("AttributeError")
             ELSE Returned(
                    [parsed |-> parse_model_json(raw_text),
                     health |-> IF ~Truthy(parse_model_json(raw_text))
                                THEN Degraded("Ollama returned non-JSON response")
                                ELSE Ok])

HealthSources == <<"k6", "prometheus", "loki", "ollama">>

HealthFinding(source, message) == [src |-> "health", source |-> source, error |-> message]

\* line 459
HealthErrors(health_map) ==
    LET failing == SelectSeq(HealthSources,
                             LAMBDA k : health_map[k].status # "ok"
                                          /\ health_map[k].error # "")
    IN  [i \in 1..Len(failing) |-> HealthFinding(failing[i], health_map[failing[i]].error)]

default_ai_analysis(p, health_map, hl) ==
    LET errors == HealthErrors(health_map)
    IN  [t |-> "dict",
         status |-> JStr(IF errors # <<>> THEN "WARNING" ELSE "HEALTHY"),
         findings |-> JList(IF errors # <<>> THEN errors
                            ELSE <<ModelFinding("No major data-source failures")>>),
         bottlenecks |-> JList(<<>>),
         likely_causes |-> JList(<<>>),
         next_actions |-> JList(<<ModelFinding("Verify connectivity"),
                                  ModelFinding("Review k6 summary metrics")>>),
         confidence |-> IF errors # <<>> THEN JNum(35, 100) ELSE JNum(6, 10),
         k6_highlights |-> hl]

-----------------------------------------------------------------------------
(* parse_time_window *)

\* the default of the parameter fallback_minutes
fallback_minutes == 10

\* a datetime, in microseconds since the epoch
DateTime(us) == [t |-> "datetime", us |-> us]

\* A number beyond the range of a datetime (1e20, Infinity) is written n/0:
\* it compares above every other number of the inputs.
OutOfRange(v) == v.d = 0

\* datetime.fromtimestamp rounds the seconds to microseconds, half to even
Micros(v) ==
    LET scaled == v.n * 1000000
        q == scaled \div v.d
        r == scaled % v.d
    IN  IF 2 * r > v.d \/ (2 * r = v.d /\ q % 2 = 1) THEN q + 1 ELSE q

\* lines 93-94: datetime.fromtimestamp(epoch, tz=utc)
fromtimestamp(v) ==
    IF OutOfRange(v) THEN Raised("OverflowError") ELSE Returned(DateTime(Micros(v)))

\* RunMetadata as main holds it
Metadata(p, start_epoch, end_epoch, start_utc, end_utc) ==
    [t |-> "dict", profile |-> p, start_epoch |-> start_epoch,
     end_epoch |-> end_epoch, start_utc |-> start_utc, end_utc |-> end_utc]

\* lines 97-98
FallbackWindow(now) ==
    [start |-> DateTime(now.us - fallback_minutes * 60 * 1000000), end |-> now]

parse_time_window(md, now) ==
    LET start_epoch == Get(md.start_epoch)
        end_epoch == Get(md.end_epoch)
    IN  IF IsNumber(start_epoch) /\ IsNumber(end_epoch) /\ RLt(start_epoch, end_epoch)
        THEN IF fromtimestamp(start_epoch).exc # "" THEN fromtimestamp(start_epoch)
             ELSE IF fromtimestamp(end_epoch).exc # "" THEN fromtimestamp(end_epoch)
             ELSE Returned([start |-> fromtimestamp(start_epoch).value,
                            end |-> fromtimestamp(end_epoch).value])
        ELSE Returned(FallbackWindow(now))

\* epochs of the inputs: missing, null, a string, whole seconds, a tenth of
\* a microsecond, and a number no datetime can hold
EpochInputs ==
    {Absent, JNull, JStr("100"), JInt(0), JInt(100), JInt(200),
     JNum(1, 10000000), JNum(1, 0)}

MetadataInputs ==
    {Metadata(Absent, s, e, Absent, Absent) : s \in EpochInputs, e \in EpochInputs}

\* readings of the clock (utc_now)
NowInputs == {DateTime(700000000), DateTime(2000000000)}

InitWindow ==
    /\ pc = "window"
    /\ inputs = NoInputs
    /\ summary = NoValue
    /\ profile = ""
    /\ k6_health = NoHealth
    /\ highlights = NoValue
    /\ prom_queries = <<>>
    /\ prom_health = NoHealth
    /\ prom_idx = 0
    /\ loki_payload = NoValue
    /\ loki_health = NoHealth
    /\ rate_limit_signals = NoValue
    /\ model_analysis = NoValue
    /\ ollama_health = NoHealth
    /\ analysis = NoValue
    /\ files = {}
    /\ error = NoError
    /\ metadata \in MetadataInputs
    /\ window = NoValue
    /\ root = NoValue
    /\ index_html = NoValue
    /\ reports = {}
    /\ CHECK_INTERVAL = NoValue
    /\ monitor_log = NoValue
    /\ lessons = <<>>
    /\ today = 0
    /\ known_issues = <<>>
    /\ known_issues_archive = <<>>

\* one call of parse_time_window
ParseTimeWindow ==
    /\ pc = "window"
    /\ \E now \in NowInputs :
        LET r == parse_time_window(metadata, now)
        IN  /\ inputs' = [inputs EXCEPT !.now = now]
            /\ window' = r.value
            /\ error' = ErrorIn(r.exc, "parse_time_window")
            /\ pc' = IF r.exc = "" THEN "window_returned" ELSE "raised"
    /\ UNCHANGED <<summary, profile, collectorVars, loki_payload,
                   rate_limit_signals, model_analysis, ollama_health, analysis,
                   files, metadata, root, index_html, reports, monitorVars,
                   issueVars>>

NextWindow == ParseTimeWindow

SpecWindow == InitWindow /\ [][NextWindow]_vars

\* an epoch given as a number
GivenEpoch(v) == Get(v).t = "num"

\* the datetime is exactly the instant the epoch names
ExactInstant(datetime, epoch) == datetime.us * epoch.d = epoch.n * 1000000

\* C12: parse_time_window never fails; when the start and the end instant
\* are both given and end > start the window is exactly (start, end), in
\* every other case it is (now - 10 minutes, now); the end of the window is
\* always strictly after its start.
C12_WindowIsVerbatimOrFallback ==
    pc \in {"window_returned", "raised"} =>
        /\ pc = "window_returned"
        /\ window.start.us < window.end.us
        /\ IF /\ GivenEpoch(metadata.start_epoch)
              /\ GivenEpoch(metadata.end_epoch)
              /\ RLt(metadata.start_epoch, metadata.end_epoch)
           THEN /\ ExactInstant(window.start, metadata.start_epoch)
                /\ ExactInstant(window.end, metadata.end_epoch)
           ELSE /\ window.end = inputs.now
                /\ window.start.us = inputs.now.us - 10 * 60 * 1000000

-----------------------------------------------------------------------------
(* list_run_dirs, build_index *)

\* an uncaught exception ends the invocation
Crash(exc, function) ==
    /\ pc' = "crashed"
    /\ error' = ErrorIn(exc, function)

\* the largest number of run folders in the artifact directory
MaxRuns == 2

\* A run folder: its name, which reports it holds, and its ai-analysis.json.
RunFolder(name, html, md, txt, analysis_file) ==
    [name |-> name, report_html |-> html, report_md |-> md, report_txt |-> txt,
     analysis_file |-> analysis_file]

\* The artifact directory: whether it exists, and its folders in the order
\* of their modification times.
Root(exists, dirs) == [exists |-> exists, dirs |-> dirs]

\* lines 52-55
list_run_dirs(r) == IF ~r.exists THEN <<>> ELSE r.dirs

\* html.escape on the texts of the inputs
Escape(s) ==
    CASE s = "20240102-a<b" -> "20240102-a&lt;b"
      [] s = "R&D ok" -> "R&amp;D ok"
      [] OTHER -> s

\* str(value) for the status and the summary of an Analysis
Str(v, default) ==
    CASE v = Absent -> default
      [] v.t = "str" -> v.s
      [] v.t = "null" -> "None"
      [] OTHER -> "?"

CompletedBuggy(run) == TRUE

\* lines 758-760: only folders with a rendered HTML report are listed
Completed(run) == run.report_html

\* lines 763-773 and 784-796: the table row of one run
IndexRow(run, a) ==
    [name |-> Escape(run.name),
     status |-> Escape(Str(a.status, "UNKNOWN")),
     summary |-> Escape(Str(a.summary, "")),
     links |-> <<"html">> \o (IF run.report_md THEN <<"md">> ELSE <<>>)
                          \o (IF run.report_txt THEN <<"txt">> ELSE <<>>)]

\* the persisted Analysis as build_index reads it
IndexAnalysis(status, text) == [t |-> "dict", status |-> status, summary |-> text]

\* lines 756-773, from the first folder on: the rows, or the exception of
\* read_json_file or of analysis.get
RECURSIVE IndexRows(_)
IndexRows(dirs) ==
    IF dirs = <<>> THEN Returned(<<>>)
    ELSE LET run == Head(dirs)
             file == read_json_file(run.analysis_file, IndexAnalysis(Absent, Absent))
             rest == IndexRows(Tail(dirs))
         IN  IF ~Completed(run) THEN rest
             ELSE IF file.exc # "" THEN file
             ELSE IF file.value.t # "dict" THEN Raised("AttributeError")
             ELSE IF rest.exc # "" THEN rest
             ELSE Returned(<<IndexRow(run, file.value)>> \o rest.value)

\* lines 754-801: the rows written to index.html
build_index(r) == IndexRows(list_run_dirs(r))

RunNames == <<"20240101-low", "20240102-a<b", "20240103-insane", "20240104-high">>

AnalysisFileInputs ==
    {[kind |-> "absent", value |-> NoValue], [kind |-> "malformed", value |-> NoValue]}
      \cup {[kind |-> "json", value |-> IndexAnalysis(st, su)] :
                st \in {Absent, JStr("HEALTHY"), JStr("CRITICAL")},
                su \in {Absent, JStr("R&D ok")}}

RunFolderInputs(name) ==
    {RunFolder(name, h, m, m, f) : h \in BOOLEAN, m \in BOOLEAN, f \in AnalysisFileInputs}

InitIndex ==
    /\ pc = "index_stale"
    /\ inputs = NoInputs
    /\ summary = NoValue
    /\ profile = ""
    /\ k6_health = NoHealth
    /\ highlights = NoValue
    /\ prom_queries = <<>>
    /\ prom_health = NoHealth
    /\ prom_idx = 0
    /\ loki_payload = NoValue
    /\ loki_health = NoHealth
    /\ rate_limit_signals = NoValue
    /\ model_analysis = NoValue
    /\ ollama_health = NoHealth
    /\ analysis = NoValue
    /\ files = {}
    /\ error = NoError
    /\ metadata = NoValue
    /\ window = NoValue
    /\ root \in {Root(FALSE, <<>>), Root(TRUE, <<>>)}
    /\ index_html = NoValue
    /\ reports = {}
    /\ CHECK_INTERVAL = NoValue
    /\ monitor_log = NoValue
    /\ lessons = <<>>
    /\ today = 0
    /\ known_issues = <<>>
    /\ known_issues_archive = <<>>

notIndexVars == <<inputs, summary, profile, collectorVars, loki_payload,
                  rate_limit_signals, model_analysis, ollama_health, analysis,
                  files, metadata, window, reports, monitorVars,
                  issueVars>>

\* a run folder appears in the artifact directory (a stress run was made)
AddRun ==
    /\ pc \in {"index_stale", "index_built", "index_rebuilt"}
    /\ Len(root.dirs) < MaxRuns
    /\ \E run \in RunFolderInputs(RunNames[Len(root.dirs) + 1]) :
          root' = Root(TRUE, Append(root.dirs, run))
    /\ pc' = "index_stale"
    /\ UNCHANGED <<index_html, error, notIndexVars>>

\* main lines 808-811: one invocation with --build-index
BuildIndexOnly ==
    /\ pc \in {"start", "index_stale", "index_built", "index_rebuilt"}
    /\ LET r == build_index(root)
       IN  IF r.exc # ""
           THEN /\ Crash(r.exc, "build_index")
                /\ root' = Root(TRUE, root.dirs)
                /\ UNCHANGED index_html
           ELSE /\ index_html' = r.value
                /\ root' = Root(TRUE, root.dirs)
                /\ pc' = IF pc \in {"start", "index_stale"}
                         THEN "index_built" ELSE "index_rebuilt"
                /\ UNCHANGED error
    /\ UNCHANGED notIndexVars

NextIndex == AddRun \/ BuildIndexOnly

SpecIndex == InitIndex /\ [][NextIndex]_vars

-----------------------------------------------------------------------------
(* main: one invocation on a run directory *)

SampleFinding == ModelFinding("slow writes")

\* a model answer that carries the keys the policy writes
WithPolicyKeys(m) ==
    [deterministic_status |-> "CRITICAL",
     deterministic_reasons |-> <<[kind |-> "model", text |-> "made up"]>>,
     rate_limit_signals |-> JNull] @@ m

\* a model answer that carries bottlenecks, likely causes and next actions
WithLists(m) ==
    [bottlenecks |-> JList(<<ModelFinding("db pool exhausted")>>),
     likely_causes |-> JList(<<ModelFinding("rate limiting")>>),
     next_actions |-> JList(<<>>)] @@ m

\* a model answer that carries a confidence
WithConfidence(m, c) == [confidence |-> c] @@ m

SummaryFileInputs ==
    {[kind |-> k, value |-> NoValue] : k \in {"absent", "malformed", "undecodable"}}
      \cup {[kind |-> "json", value |-> v] : v \in
              {EmptySummary,
               JList(<<JInt(1)>>),
               Summary([EmptyMetric EXCEPT
                          !.values = [t |-> "dict", rate |-> JNum(3, 100), value |-> Absent],
                          !.thresholds = JDict(<<CHOOSE x \in Texts(JNum(8, 100)) : TRUE>>)],
                       Absent),
               Summary([EmptyMetric EXCEPT
                          !.values = [t |-> "dict", rate |-> JNum(12, 100), value |-> Absent],
                          !.thresholds = JDict(<<CHOOSE x \in Texts(JNum(8, 100)) : TRUE>>)],
                       Absent),
               Summary(Absent,
                       JDict([n \in CheckNames |->
                                IF n = "create post status 201"
                                THEN [t |-> "dict", passes |-> JInt(5), fails |-> JInt(95)]
                                ELSE Absent]))}}

AllQueries(outcome) == [i \in 1..Len(DEFAULT_PROM_QUERIES) |-> outcome]

PromPatternInputs ==
    {AllQueries("ok"), AllQueries("range_failed"),
     [AllQueries("ok") EXCEPT ![3] = "instant_failed"]}

LokiPatternInputs == [1..Len(LOKI_QUERIES) -> LokiOutcomes]

VerdictInputs ==
    {ModelAnalysis(JStr("HEALTHY"), JList(<<>>)),
     ModelAnalysis(JStr("HEALTHY"), JList(<<SampleFinding>>)),
     ModelAnalysis(JStr("WARNING"), JList(<<SampleFinding>>)),
     ModelAnalysis(JStr("CRITICAL"), JList(<<SampleFinding>>)),
     ModelAnalysis(JInt(5), JList(<<SampleFinding>>)),
     ModelAnalysis(JStr("HEALTHY"), JInt(3)),
     ModelAnalysis(Absent, JList(<<SampleFinding>>))}
      \cup {WithConfidence(ModelAnalysis(JStr("HEALTHY"), JList(<<SampleFinding>>)), c) :
              c \in {JNum(9, 10), JStr("high"), JNum(-1, 2), JNum(3, 2)}}
      \cup {WithPolicyKeys(ModelAnalysis(JStr("HEALTHY"), JList(<<SampleFinding>>)))}
      \cup {WithLists(ModelAnalysis(JStr("WARNING"), JList(<<SampleFinding>>)))}

TextInputs ==
    {Text(TRUE, Invalid, FALSE, Invalid),       \* only whitespace
     Text(FALSE, Invalid, FALSE, Invalid),      \* free text
     Text(FALSE, Invalid, TRUE, Invalid),       \* braces around no JSON
     Text(FALSE, EmptyDict, TRUE, EmptyDict),   \* {}
     Text(FALSE, JNull, FALSE, Invalid),        \* null
     Text(FALSE, JInt(5), FALSE, Invalid),      \* 5
     Text(FALSE, JList(<<JInt(1), JInt(2)>>), FALSE, Invalid)}   \* [1, 2]
      \cup {Text(FALSE, v, TRUE, v) : v \in VerdictInputs}
      \cup {Text(FALSE, Invalid, TRUE, v) :
              v \in {ModelAnalysis(JStr("HEALTHY"), JList(<<SampleFinding>>))}}

Body(response) == [t |-> "dict", response |-> response]

OllamaInputs ==
    {[kind |-> k, body |-> NoValue] : k \in RequestFailures}
      \cup {[kind |-> "json", body |-> b] :
              b \in {JList(<<>>), Body(Absent), Body(JNull)}
                      \cup {Body(x) : x \in TextInputs}}

REPORTS == {"report.html", "report.md", "report.txt"}

\* lines 58-68: --run-dir names a folder that must exist; without it the
\* last folder of the artifact directory is taken
resolve_run_dir(run_dir_arg, r) ==
    IF run_dir_arg # ""
    THEN IF r.exists /\ \E i \in 1..Len(r.dirs) : r.dirs[i].name = run_dir_arg
         THEN Returned(CHOOSE run \in {r.dirs[i] : i \in 1..Len(r.dirs)} :
                          run.name = run_dir_arg)
         ELSE Raised("SystemExit")
    ELSE IF list_run_dirs(r) = <<>>
         THEN Raised("SystemExit")
         ELSE Returned(list_run_dirs(r)[Len(list_run_dirs(r))])

\* line 815: run_dir.name.split("-")[-1]
NameSuffix(name) ==
    CASE name = "20240101-low" -> "low"
      [] name = "20240102-a<b" -> "a<b"
      [] name = "20240103-insane" -> "insane"
      [] name = "20240104-high" -> "high"
      [] OTHER -> name

\* datetime.isoformat(): the text of an instant
isoformat(datetime) == [t |-> "str", iso |-> datetime.us]

\* dict.setdefault: a key that is present keeps its value
SetDefault(value, default) == IF value = Absent THEN default ELSE value

\* lines 818-820
WithDefaults(md, p, w) ==
    [md EXCEPT !.profile = SetDefault(@, JStr(p)),
               !.start_utc = SetDefault(@, isoformat(w.start)),
               !.end_utc = SetDefault(@, isoformat(w.end))]

\* line 815
ResolvedProfile(args_profile, md, run) ==
    IF args_profile # "" THEN args_profile
    ELSE IF Truthy(Get(md.profile)) THEN Get(md.profile).s
    ELSE NameSuffix(run.name)

\* the artifact directory is missing, is empty, or holds one run folder
RootInputs ==
    {Root(FALSE, <<>>), Root(TRUE, <<>>),
     Root(TRUE, <<RunFolder(RunNames[1], FALSE, FALSE, FALSE,
                            [kind |-> "absent", value |-> NoValue])>>)}

\* --run-dir: not given, an existing folder, a folder that is not there
RunDirArgs == {"", RunNames[1], RunNames[4]}

\* --profile: not given, or given
ArgsProfileInputs == {"", "nightly"}

\* metadata.json: absent, not an object, without the resolved fields, with all
MetadataFileInputs ==
    {[kind |-> "absent", value |-> NoValue],
     [kind |-> "json", value |-> JList(<<>>)],
     [kind |-> "json",
      value |-> Metadata(JStr("insane"), JInt(100), JInt(200), Absent, Absent)],
     [kind |-> "json",
      value |-> Metadata(JStr("low"), Absent, Absent,
                         JStr("2024-01-01T00:00:00"), JStr("2024-01-01T00:05:00"))]}

Init ==
    /\ pc = "start"
    /\ summary = NoValue
    /\ profile = ""
    /\ loki_payload = NoValue
    /\ rate_limit_signals = NoValue
    /\ model_analysis = NoValue
    /\ analysis = NoValue
    /\ error = NoError
    /\ root \in RootInputs
    /\ Idle

\* line 813: resolve_run_dir raises SystemExit when there is no run directory
ResolveRunDir ==
    /\ pc = "start"
    /\ \E run_dir_arg \in RunDirArgs :
        LET r == resolve_run_dir(run_dir_arg, root)
        IN  IF r.exc # ""
            THEN /\ pc' = "aborted"
                 /\ error' = ErrorIn(r.exc, "resolve_run_dir")
                 /\ inputs' = [inputs EXCEPT !.run_dir_arg = run_dir_arg]
            ELSE /\ pc' = "read_metadata"
                 /\ inputs' = [inputs EXCEPT !.run_dir_arg = run_dir_arg,
                                             !.run_dir = r.value]
                 /\ UNCHANGED error
    /\ UNCHANGED <<summary, profile, collectorVars, loki_payload,
                   rate_limit_signals, model_analysis, ollama_health, analysis,
                   files>>
    /\ UNCHANGED contextVars

\* lines 814-820: the metadata is read, the profile and the time window are
\* resolved and the missing fields of the dict in memory are filled in
ReadMetadata ==
    /\ pc = "read_metadata"
    /\ \E file \in MetadataFileInputs, args_profile \in ArgsProfileInputs :
        LET now == DateTime(2000000000)
            read == read_json_file(file, Metadata(Absent, Absent, Absent, Absent, Absent))
            md == read.value
            w == parse_time_window(md, now)
            p == ResolvedProfile(args_profile, md, inputs.run_dir)
        IN  /\ inputs' = [inputs EXCEPT !.metadata_file = file, !.now = now,
                                        !.args_profile = args_profile]
            /\ IF read.exc # ""
               THEN /\ Crash(read.exc, "read_json_file")
                    /\ UNCHANGED <<profile, metadata, window>>
               ELSE IF md.t # "dict"
               THEN /\ Crash("AttributeError", "main")
                    /\ UNCHANGED <<profile, metadata, window>>
               ELSE IF w.exc # ""
               THEN /\ Crash(w.exc, "parse_time_window")
                    /\ profile' = p
                    /\ UNCHANGED <<metadata, window>>
               ELSE /\ profile' = p
                    /\ window' = w.value
                    /\ metadata' = WithDefaults(md, p, w.value)
                    /\ pc' = "read_summary"
                    /\ UNCHANGED error
    /\ UNCHANGED <<summary, collectorVars, loki_payload, rate_limit_signals,
                   model_analysis, ollama_health, analysis, files, root,
                   index_html, reports, monitorVars,
                   issueVars>>

\* lines 822-823
ReadSummary ==
    /\ pc = "read_summary"
    /\ \E file \in SummaryFileInputs :
        LET r == read_k6_summary(file)
        IN  /\ inputs' = [inputs EXCEPT !.summary_file = file.kind]
            /\ IF r.exc # ""
               THEN /\ Crash(r.exc, "read_k6_summary")
                    /\ UNCHANGED <<summary, k6_health, highlights>>
               ELSE /\ summary' = r.value.summary
                    /\ k6_health' = r.value.health
                    /\ highlights' = extract_k6_highlights(r.value.summary)
                    /\ pc' = "prometheus"
                    /\ UNCHANGED error
    /\ UNCHANGED <<profile, prom_queries, prom_health, prom_idx, loki_payload,
                   loki_health, rate_limit_signals, model_analysis,
                   ollama_health, analysis, files>>
    /\ UNCHANGED contextVars

\* line 825
CollectPrometheus ==
    /\ pc = "prometheus"
    /\ \E outcomes \in PromPatternInputs :
        LET r == collect_prometheus(outcomes)
        IN  /\ inputs' = [inputs EXCEPT !.prometheus = outcomes]
            /\ prom_queries' = r.queries
            /\ prom_health' = r.health
            /\ prom_idx' = Len(r.queries)
    /\ pc' = "loki"
    /\ UNCHANGED <<summary, profile, k6_health, highlights, loki_payload,
                   loki_health, rate_limit_signals, model_analysis,
                   ollama_health, analysis, files, error>>
    /\ UNCHANGED contextVars

\* line 826
CollectLoki ==
    /\ pc = "loki"
    /\ \E outcomes \in LokiPatternInputs :
        LET r == collect_loki(outcomes)
        IN  /\ inputs' = [inputs EXCEPT !.loki = outcomes]
            /\ loki_payload' = r.payload
            /\ loki_health' = r.health
    /\ pc' = "snapshots"
    /\ UNCHANGED <<summary, profile, k6_health, highlights, prom_queries,
                   prom_health, prom_idx, rate_limit_signals, model_analysis,
                   ollama_health, analysis, files, error>>
    /\ UNCHANGED contextVars

\* lines 828-829
WriteSnapshots ==
    /\ pc = "snapshots"
    /\ files' = files \cup {"metrics.json", "logs.json"}
    /\ pc' = "build_signals"
    /\ UNCHANGED <<inputs, summary, profile, collectorVars, loki_payload,
                   rate_limit_signals, model_analysis, ollama_health, analysis,
                   error>>
    /\ UNCHANGED contextVars

\* line 831: summary.get raises AttributeError unless the summary is a dict
BuildSignals ==
    /\ pc = "build_signals"
    /\ IF summary.t # "dict"
       THEN /\ Crash("AttributeError", "build_rate_limit_signals")
            /\ UNCHANGED rate_limit_signals
       ELSE /\ rate_limit_signals' = build_rate_limit_signals(summary, profile, loki_payload)
            /\ pc' = "ollama"
            /\ UNCHANGED error
    /\ UNCHANGED <<inputs, summary, profile, collectorVars, loki_payload,
                   model_analysis, ollama_health, analysis, files>>
    /\ UNCHANGED contextVars

\* lines 833-836
CallOllama ==
    /\ pc = "ollama"
    /\ \E response \in OllamaInputs :
        LET r == call_ollama(response)
        IN  /\ inputs' = [inputs EXCEPT !.ollama = response]
            /\ IF r.exc # ""
               THEN /\ Crash(r.exc, "call_ollama")
                    /\ UNCHANGED <<model_analysis, ollama_health>>
               ELSE /\ model_analysis' = r.value.parsed
                    /\ ollama_health' = r.value.health
                    /\ pc' = "merge"
                    /\ UNCHANGED error
    /\ UNCHANGED <<summary, profile, collectorVars, loki_payload,
                   rate_limit_signals, analysis, files>>
    /\ UNCHANGED contextVars

\* lines 838-843
HealthMap ==
    [k6 |-> k6_health, prometheus |-> prom_health, loki |-> loki_health,
     ollama |-> ollama_health]

\* line 845
ChosenAnalysis ==
    IF Truthy(model_analysis) THEN model_analysis
    ELSE default_ai_analysis(profile, HealthMap, highlights)

\* lines 846-850; the subscript assignment raises TypeError unless the
\* analysis is a dict
AnnotatedAnalysis ==
    [data_source_health |-> HealthMap, profile |-> profile,
     rate_limit_signals |-> rate_limit_signals] @@ ChosenAnalysis

\* lines 838-851
MergeAnalysis ==
    /\ pc = "merge"
    /\ IF ChosenAnalysis.t # "dict"
       THEN /\ Crash("TypeError", "main")
            /\ UNCHANGED analysis
       ELSE LET r == apply_status_policy(AnnotatedAnalysis, rate_limit_signals, profile)
            IN  IF r.exc # ""
                THEN /\ Crash(r.exc, "apply_status_policy")
                     /\ UNCHANGED analysis
                ELSE /\ analysis' = r.value
                     /\ pc' = "write_analysis"
                     /\ UNCHANGED error
    /\ UNCHANGED <<inputs, summary, profile, collectorVars, loki_payload,
                   rate_limit_signals, model_analysis, ollama_health, files>>
    /\ UNCHANGED contextVars

\* line 853
WriteAnalysis ==
    /\ pc = "write_analysis"
    /\ files' = files \cup {"ai-analysis.json"}
    /\ pc' = "report_html"
    /\ UNCHANGED <<inputs, summary, profile, collectorVars, loki_payload,
                   rate_limit_signals, model_analysis, ollama_health, analysis,
                   error>>
    /\ UNCHANGED contextVars

\* dict.get(key): the value, or nothing
Field(a, key) == IF key \in DOMAIN a THEN a[key] ELSE Absent

\* analysis.get(key, []) or []
ListOf(a, key) == IF Truthy(Get(Field(a, key))) THEN Field(a, key).v ELSE <<>>

\* A section of a document: whether the renderer prints it, its items, and
\* the text printed in their place when there are none.
NotShown == [shown |-> FALSE, items |-> <<>>, placeholder |-> ""]
Shown(items, placeholder) ==
    [shown |-> TRUE, items |-> items,
     placeholder |-> IF items = <<>> THEN placeholder ELSE ""]

\* line 517: loki.get("entries", [])[:20]
LOKI_SAMPLE_LINES == 20
LokiSample(loki) ==
    SubSeq(loki.entries, 1,
           IF Len(loki.entries) < LOKI_SAMPLE_LINES
           THEN Len(loki.entries) ELSE LOKI_SAMPLE_LINES)

\* what the three renderers print alike: status and summary, run window,
\* Highlights, health rows, the deterministic status, the signal counts
CommonSections(md, health_map, hl, a) ==
    [status |-> Str(Field(a, "status"), "WARNING"),
     summary |-> Str(Field(a, "summary"), "No summary provided"),
     start_utc |-> Field(md, "start_utc"),
     end_utc |-> Field(md, "end_utc"),
     highlights |-> hl,
     health |-> health_map,
     deterministic_status |-> Field(a, "deterministic_status"),
     loki_rate_limit_entry_count |-> a.rate_limit_signals.loki_rate_limit_entry_count,
     findings |-> Shown(ListOf(a, "findings"), "None")]

\* lines 492-599: no section for bottlenecks and likely causes
render_report_html(md, health_map, hl, a, loki) ==
    [deterministic_reasons |-> Shown(a.deterministic_reasons, "None"),
     critical_write_checks |->
        Shown(a.rate_limit_signals.critical_write_checks,
              "No canonical write checks in summary."),
     likely_rate_limited_endpoints |->
        Shown(a.rate_limit_signals.likely_rate_limited_endpoints, "None"),
     bottlenecks |-> NotShown,
     likely_causes |-> NotShown,
     next_actions |-> Shown(ListOf(a, "next_actions"), "None"),
     log_sample |-> Shown(LokiSample(loki), "No matching log lines.")]
      @@ CommonSections(md, health_map, hl, a)

\* lines 601-672
render_report_markdown(md, health_map, hl, a) ==
    [deterministic_reasons |-> Shown(a.deterministic_reasons, "None"),
     critical_write_checks |->
        Shown(a.rate_limit_signals.critical_write_checks, "None"),
     likely_rate_limited_endpoints |->
        Shown(a.rate_limit_signals.likely_rate_limited_endpoints, "None"),
     bottlenecks |-> Shown(ListOf(a, "bottlenecks"), "None"),
     likely_causes |-> Shown(ListOf(a, "likely_causes"), "None"),
     next_actions |-> Shown(ListOf(a, "next_actions"), "None"),
     log_sample |-> NotShown]
      @@ CommonSections(md, health_map, hl, a)

\* lines 675-751: the reasons are listed without a text for none, and the
\* function is given no log entries
render_report_text(md, health_map, hl, a) ==
    [deterministic_reasons |-> Shown(a.deterministic_reasons, ""),
     critical_write_checks |->
        Shown(a.rate_limit_signals.critical_write_checks,
              "No canonical write checks in summary."),
     likely_rate_limited_endpoints |->
        Shown(a.rate_limit_signals.likely_rate_limited_endpoints, "None"),
     bottlenecks |-> Shown(ListOf(a, "bottlenecks"), "None"),
     likely_causes |-> Shown(ListOf(a, "likely_causes"), "None"),
     next_actions |-> Shown(ListOf(a, "next_actions"), "None"),
     log_sample |-> NotShown]
      @@ CommonSections(md, health_map, hl, a)

\* the renderers iterate analysis.get("findings", []) or []: TypeError when
\* the findings are truthy and not iterable
RenderRaises(a) == Truthy(Get(a.findings)) /\ a.findings.t # "list"

WriteReport(at, name, function, document, next) ==
    /\ pc = at
    /\ IF RenderRaises(analysis)
       THEN /\ Crash("TypeError", function)
            /\ UNCHANGED <<files, reports>>
       ELSE /\ files' = files \cup {name}
            /\ reports' = reports \cup {[name |-> name, document |-> document]}
            /\ pc' = next
            /\ UNCHANGED error
    /\ UNCHANGED <<inputs, summary, profile, collectorVars, loki_payload,
                   rate_limit_signals, model_analysis, ollama_health, analysis>>
    /\ UNCHANGED <<metadata, window, root, index_html, monitorVars,
                   issueVars>>

\* lines 855-864
WriteReportHtml ==
    WriteReport("report_html", "report.html", "render_report_html",
                render_report_html(metadata, HealthMap, highlights, analysis, loki_payload),
                "report_md")

\* lines 865-868
WriteReportMd ==
    WriteReport("report_md", "report.md", "render_report_markdown",
                render_report_markdown(metadata, HealthMap, highlights, analysis),
                "report_txt")

\* lines 869-872
WriteReportTxt ==
    WriteReport("report_txt", "report.txt", "render_report_text",
                render_report_text(metadata, HealthMap, highlights, analysis),
                "index")

\* lines 874-876
BuildIndex ==
    /\ pc = "index"
    /\ files' = files \cup {"index.html"}
    /\ pc' = "done"
    /\ UNCHANGED <<inputs, summary, profile, collectorVars, loki_payload,
                   rate_limit_signals, model_analysis, ollama_health, analysis,
                   error>>
    /\ UNCHANGED contextVars

Next ==
    \/ BuildIndexOnly
    \/ ResolveRunDir
    \/ ReadMetadata
    \/ ReadSummary
    \/ CollectPrometheus
    \/ CollectLoki
    \/ WriteSnapshots
    \/ BuildSignals
    \/ CallOllama
    \/ MergeAnalysis
    \/ WriteAnalysis
    \/ WriteReportHtml
    \/ WriteReportMd
    \/ WriteReportTxt
    \/ BuildIndex

Spec == Init /\ [][Next]_vars

-----------------------------------------------------------------------------
(* collect_prometheus, one registry query at a time *)

InitProm ==
    /\ pc = "prom_loop"
    /\ inputs = NoInputs
    /\ summary = NoValue
    /\ profile = ""
    /\ k6_health = NoHealth
    /\ highlights = NoValue
    /\ prom_queries = <<>>
    /\ prom_health = Ok
    /\ prom_idx = 0
    /\ loki_payload = NoValue
    /\ loki_health = NoHealth
    /\ rate_limit_signals = NoValue
    /\ model_analysis = NoValue
    /\ ollama_health = NoHealth
    /\ analysis = NoValue
    /\ files = {}
    /\ error = NoError
    /\ metadata = NoValue
    /\ window = NoValue
    /\ root = NoValue
    /\ index_html = NoValue
    /\ reports = {}
    /\ CHECK_INTERVAL = NoValue
    /\ monitor_log = NoValue
    /\ lessons = <<>>
    /\ today = 0
    /\ known_issues = <<>>
    /\ known_issues_archive = <<>>

promVars == <<pc, inputs, prom_queries, prom_health, prom_idx>>
notPromVars == <<summary, profile, k6_health, highlights, loki_payload,
                 loki_health, rate_limit_signals, model_analysis,
                 ollama_health, analysis, files, error, metadata, window,
                 root, index_html, reports, monitorVars, issueVars>>

\* one iteration of the loop of lines 130-141
PromQuery ==
    /\ pc = "prom_loop"
    /\ prom_idx < Len(DEFAULT_PROM_QUERIES)
    /\ \E outcome \in PromOutcomes :
        /\ inputs' = [inputs EXCEPT !.prometheus = Append(@, outcome)]
        /\ prom_queries' =
              Append(prom_queries, PromEntry(DEFAULT_PROM_QUERIES[prom_idx + 1], outcome))
        /\ prom_health' = PromHealthAfter(prom_health, outcome)
    /\ prom_idx' = prom_idx + 1
    /\ UNCHANGED <<pc, notPromVars>>

\* line 143
PromReturn ==
    /\ pc = "prom_loop"
    /\ prom_idx = Len(DEFAULT_PROM_QUERIES)
    /\ pc' = "prom_returned"
    /\ UNCHANGED <<inputs, prom_queries, prom_health, prom_idx, notPromVars>>

NextProm == PromQuery \/ PromReturn

SpecProm == InitProm /\ [][NextProm]_vars

-----------------------------------------------------------------------------
(* Properties of one invocation (Spec) *)

\* the summary could not be read and every metrics and log query failed
AllThreeSourcesFailed ==
    /\ k6_health.status = "degraded"
    /\ prom_health.status = "degraded"
    /\ loki_health.status = "degraded"
    /\ \A i \in 1..Len(inputs.prometheus) : inputs.prometheus[i] # "ok"
    /\ \A i \in 1..Len(inputs.loki) : ~inputs.loki[i].ok

\* the endpoint failed, returned nothing usable, or returned a verdict with
\* one of the three levels and a list of findings
EndpointAnswered == model_analysis # NoValue
UsableVerdict ==
    /\ model_analysis.t = "dict"
    /\ model_analysis.status \in {JStr(l) : l \in Levels}
    /\ model_analysis.findings.t = "list"
FailureOrVerdict == EndpointAnswered /\ (~Truthy(model_analysis) \/ UsableVerdict)

Persisted == "ai-analysis.json" \in files

NamesSource(findings, source) ==
    \E i \in 1..Len(findings) :
        findings[i].src = "health" /\ findings[i].source = source

\* C7: when the summary reader, the metrics collector and the log collector
\* all failed, then whatever the endpoint returned, the invocation does not
\* raise, the persisted Analysis is WARNING or CRITICAL with findings that
\* name each failed source, and the three reports are written.
C7_AllSourcesFailedStillWarns ==
    (FailureOrVerdict /\ AllThreeSourcesFailed) =>
        /\ pc # "crashed"
        /\ Persisted =>
            /\ analysis.status \in {JStr("WARNING"), JStr("CRITICAL")}
            /\ analysis.findings.t = "list"
            /\ \A source \in {"k6", "prometheus", "loki"} :
                  NamesSource(analysis.findings.v, source)
        /\ pc = "done" => REPORTS \subseteq files

\* C8: once the run directory is resolved, no outcome of the summary read,
\* of the metrics and log queries or of the generation request ends the
\* invocation; it completes with ai-analysis.json and the three reports.
C8_NoSourceFailureIsFatal ==
    /\ pc # "crashed"
    /\ pc = "done" => ({"ai-analysis.json"} \cup REPORTS) \subseteq files

HealthWellFormed(h) ==
    h # NoHealth =>
        /\ h.status \in {"ok", "degraded"}
        /\ h.status = "degraded" <=> h.error # ""

\* C9: a collector returns its payload and health and never raises when its
\* source cannot be reached or parsed; the health is degraded exactly when
\* the error is non-empty, and ok exactly when every fetch and parse of the
\* source succeeded.
C9_CollectorsDegradeInsteadOfRaising ==
    /\ error.in \notin {"read_k6_summary", "collect_prometheus", "collect_loki"}
    /\ HealthWellFormed(k6_health)
    /\ HealthWellFormed(prom_health)
    /\ HealthWellFormed(loki_health)
    /\ k6_health # NoHealth =>
          (k6_health.status = "ok" <=>
              (inputs.summary_file = "json" /\ summary # EmptySummary))
    /\ prom_health # NoHealth =>
          (prom_health.status = "ok" <=>
              \A i \in 1..Len(inputs.prometheus) : inputs.prometheus[i] = "ok")
    /\ loki_health # NoHealth =>
          (loki_health.status = "ok" <=>
              \A i \in 1..Len(inputs.loki) : inputs.loki[i].ok)

-----------------------------------------------------------------------------
(* Properties of collect_prometheus (SpecProm) *)

\* C10: every registry query gets its entry, in registry order, whatever
\* failed before it; an entry carries an error exactly when one of the two
\* requests of its query failed, and then holds neither range nor instant
\* data; the health is degraded exactly when some entry carries an error,
\* also after later queries succeeded.
C10_EveryQueryHasItsEntry ==
    /\ Len(DEFAULT_PROM_QUERIES) = 8
    /\ Len(prom_queries) = prom_idx
    /\ Len(inputs.prometheus) = prom_idx
    /\ pc = "prom_returned" => prom_idx = Len(DEFAULT_PROM_QUERIES)
    /\ \A i \in 1..Len(prom_queries) :
        /\ prom_queries[i].name = DEFAULT_PROM_QUERIES[i]
        /\ prom_queries[i].error # "" <=> inputs.prometheus[i] # "ok"
        /\ prom_queries[i].range <=> prom_queries[i].error = ""
        /\ prom_queries[i].instant <=> prom_queries[i].error = ""
    /\ prom_health.status \in {"ok", "degraded"}
    /\ prom_health.status = "degraded" <=>
          \E i \in 1..Len(prom_queries) : prom_queries[i].error # ""

\* C10 witness: the first query failed, the seven after it succeeded, and
\* the collector returned all eight entries with degraded health.
C10_Witness ==
    /\ pc = "prom_returned"
    /\ Len(prom_queries) = 8
    /\ inputs.prometheus[1] = "instant_failed"
    /\ \A i \in 2..8 : inputs.prometheus[i] = "ok" /\ prom_queries[i].range
    /\ prom_queries[1].error # ""
    /\ prom_health.status = "degraded"

-----------------------------------------------------------------------------
(* Properties of collect_loki (Spec) *)

\* the number of payload entries that carry a category
EntriesOf(category) ==
    Cardinality({j \in 1..Len(loki_payload.entries) :
                    loki_payload.entries[j].category = category})

\* C11: both log queries are issued, severity first; a failed query degrades
\* the health and contributes no entry and entry_count 0, the other query's
\* entries are still collected; every entry carries the category of its
\* query and each entry_count is the number of entries of that category.
C11_LokiQueriesAreIndependent ==
    loki_payload # NoValue =>
        /\ LOKI_QUERIES = <<"severity", "rate_limit">>
        /\ Len(inputs.loki) = Len(LOKI_QUERIES)
        /\ Len(loki_payload.entry_counts) = Len(LOKI_QUERIES)
        /\ \A i \in 1..Len(LOKI_QUERIES) :
            /\ loki_payload.entry_counts[i] = EntriesOf(LOKI_QUERIES[i])
            /\ loki_payload.entry_counts[i] =
                  (IF inputs.loki[i].ok THEN inputs.loki[i].lines ELSE 0)
        /\ \A j \in 1..Len(loki_payload.entries) :
            /\ loki_payload.entries[j].category \in {"severity", "rate_limit"}
            /\ \A k \in 1..(j - 1) :
                  loki_payload.entries[j].category = "severity" =>
                      loki_payload.entries[k].category = "severity"
        /\ (\E i \in 1..Len(LOKI_QUERIES) : ~inputs.loki[i].ok) =>
              loki_health.status = "degraded"

\* C11 witness: the severity query failed and the rate_limit query still
\* delivered its entries.
C11_Witness ==
    /\ loki_payload # NoValue
    /\ ~inputs.loki[1].ok
    /\ inputs.loki[2].ok /\ inputs.loki[2].lines > 0
    /\ loki_payload.entry_counts = <<0, inputs.loki[2].lines>>
    /\ \A j \in 1..Len(loki_payload.entries) :
          loki_payload.entries[j].category = "rate_limit"
    /\ Len(loki_payload.entries) > 0
    /\ loki_health.status = "degraded"

-----------------------------------------------------------------------------
(* Properties of extract_k6_highlights (SpecPolicy) *)

\* the number under "rate" when there is one, else the number under "value"
RateElseValue(metric) ==
    IF metric_value(metric, "rate") # JNull THEN metric_value(metric, "rate")
    ELSE metric_value(metric, "value")

\* C13: the failure-rate and the checks-pass-rate highlight are the number
\* under "rate" when that is a number, otherwise the number under "value",
\* and null only when neither is a number; a recorded rate of 0 gives 0.
C13_RateBeforeValue ==
    highlights # NoValue =>
        /\ highlights.http_req_failed_rate =
              RateElseValue(MetricOf(summary, "http_req_failed"))
        /\ highlights.checks_pass_rate =
              RateElseValue(MetricOf(summary, "checks_metric"))

-----------------------------------------------------------------------------
(* Properties of the assessment request (Spec) *)

\* the analysis came from default_ai_analysis, which alone adds k6_highlights
FallbackUsed == "k6_highlights" \in DOMAIN analysis

\* the endpoint failed (no connection, timeout, non-2xx, a body that is not
\* JSON) or answered with an object that carries a response text
EndpointOutcomeListed ==
    /\ inputs.ollama # NoValue
    /\ \/ inputs.ollama.kind \in RequestFailures
       \/ /\ inputs.ollama.body.t = "dict"
          /\ inputs.ollama.body.response.t = "str"

\* C14: for every outcome of the endpoint call_ollama returns without
\* raising; either the result is a non-empty object and the health is ok, or
\* the result is empty and the health is degraded with an error that names
\* the failure mode; the fallback assessment is used exactly when the
\* result is empty.
C14_RequesterReturnsResultOrDegrades ==
    EndpointOutcomeListed =>
        /\ error.in # "call_ollama"
        /\ model_analysis # NoValue =>
              \/ /\ model_analysis.t = "dict"
                 /\ Truthy(model_analysis)
                 /\ ollama_health = Ok
              \/ /\ ~Truthy(model_analysis)
                 /\ ollama_health.status = "degraded"
                 /\ ollama_health.error =
                       (IF inputs.ollama.kind \in RequestFailures
                        THEN "Ollama request failure"
                        ELSE "Ollama returned non-JSON response")
        /\ analysis # NoValue => (FallbackUsed <=> ~Truthy(model_analysis))

-----------------------------------------------------------------------------
(* Properties of what apply_status_policy attaches (SpecPolicy) *)

AttachedReasons == analysis.deterministic_reasons
SignalChecks == rate_limit_signals.critical_write_checks

BelowFifth(rate) == rate.n * 5 < rate.d

HasCheckReason(check) ==
    \E i \in 1..Len(AttachedReasons) :
        /\ AttachedReasons[i].kind = "check"
        /\ AttachedReasons[i].check_name = check.check_name
        /\ AttachedReasons[i].pass_rate = check.pass_rate

\* C15: whatever the outcome of the merge, the returned Analysis carries the
\* deterministic status, every reason computed in the call (one per severely
\* constrained check of the signals, one for an exceeded failure rate) and
\* the signal bundle it was given, unmodified.
C15_ReasonsAndSignalsAttached ==
    Merged =>
        /\ analysis.rate_limit_signals = rate_limit_signals
        /\ analysis.deterministic_status \in {"HEALTHY", "CRITICAL"}
        /\ analysis.deterministic_status = "CRITICAL" <=> AttachedReasons # <<>>
        /\ \A i \in 1..Len(SignalChecks) :
              BelowFifth(SignalChecks[i].pass_rate) <=> HasCheckReason(SignalChecks[i])
        /\ \A i \in 1..Len(AttachedReasons) :
              \/ /\ AttachedReasons[i].kind = "check"
                 /\ \E j \in 1..Len(SignalChecks) :
                       SignalChecks[j].check_name = AttachedReasons[i].check_name
              \/ /\ AttachedReasons[i].kind = "rate"
                 /\ i = 1
                 /\ AttachedReasons[i].rate = rate_limit_signals.http_req_failed_rate
                 /\ RLt(AttachedReasons[i].threshold, AttachedReasons[i].rate)
        /\ (/\ rate_limit_signals.http_req_failed_rate # JNull
            /\ rate_limit_signals.http_req_failed_threshold.n # 0
            /\ RLt(rate_limit_signals.http_req_failed_threshold,
                   rate_limit_signals.http_req_failed_rate))
              => (AttachedReasons # <<>> /\ AttachedReasons[1].kind = "rate")

\* C15 witness: two reasons are attached although the model said HEALTHY.
C15_Witness ==
    /\ Merged
    /\ model_analysis.status = JStr("HEALTHY")
    /\ analysis.deterministic_status = "CRITICAL"
    /\ Len(AttachedReasons) = 2
    /\ analysis.rate_limit_signals = rate_limit_signals
    /\ Len(SignalChecks) = 2

FindingsBefore ==
    IF model_analysis.findings = Absent THEN <<>> ELSE model_analysis.findings.v

\* C16: when the deterministic status is CRITICAL the findings are the
\* findings the assessment had, in their order, followed by one synthesized
\* policy finding; in every other case the findings are exactly as they were.
C16_FindingsAreOnlyAppendedTo ==
    Merged =>
        IF analysis.deterministic_status = "CRITICAL"
        THEN /\ analysis.status = JStr("CRITICAL")
             /\ analysis.findings.t = "list"
             /\ Len(analysis.findings.v) = Len(FindingsBefore) + 1
             /\ SubSeq(analysis.findings.v, 1, Len(FindingsBefore)) = FindingsBefore
             /\ analysis.findings.v[Len(FindingsBefore) + 1].src = "policy"
             /\ \A i \in 1..Len(FindingsBefore) : FindingsBefore[i].src = "model"
        ELSE analysis.findings = model_analysis.findings

\* C16 witness: two model findings are kept in order before the policy one.
C16_Witness ==
    /\ Merged
    /\ analysis.deterministic_status = "CRITICAL"
    /\ Len(FindingsBefore) = 2
    /\ Len(analysis.findings.v) = 3
    /\ analysis.findings.v[1] = ModelFinding("slow writes")
    /\ analysis.findings.v[2] = ModelFinding("db saturated")
    /\ analysis.findings.v[3].src = "policy"

-----------------------------------------------------------------------------
(* Properties of build_index (SpecIndex) *)

IndexBuilt == {"index_built", "index_rebuilt"}

\* the run folders that hold report.html, in folder order
RunsWithReport(r) == SelectSeq(r.dirs, LAMBDA run : run.report_html)

\* the status and the summary of the Analysis a run folder persists
PersistedStatus(run) ==
    IF run.analysis_file.kind = "json" /\ run.analysis_file.value.status # Absent
    THEN run.analysis_file.value.status.s ELSE "UNKNOWN"
PersistedSummary(run) ==
    IF run.analysis_file.kind = "json" /\ run.analysis_file.value.summary # Absent
    THEN run.analysis_file.value.summary.s ELSE ""

ListsExactly(rows, r) ==
    /\ Len(rows) = Len(RunsWithReport(r))
    /\ \A i \in 1..Len(rows) :
        /\ rows[i].name = Escape(RunsWithReport(r)[i].name)
        /\ rows[i].status = PersistedStatus(RunsWithReport(r)[i])
        /\ rows[i].summary =
              (IF PersistedSummary(RunsWithReport(r)[i]) = "R&D ok"
               THEN "R&amp;D ok" ELSE "")

\* C17: an index build leaves every run folder as it was and lists exactly
\* the run folders that hold report.html, each with the status and summary
\* of its persisted Analysis; a build that follows a build with no run added
\* or changed in between writes the same index.html again.
C17_IndexIsIdempotentAndReadOnly ==
    [][pc' \in IndexBuilt =>
          /\ root'.dirs = root.dirs
          /\ ListsExactly(index_html', root)
          /\ pc \in IndexBuilt => index_html' = index_html]_vars

\* C17 witness: of two run folders only the second holds report.html, and
\* the index was built twice in a row.
C17_Witness ==
    /\ pc = "index_rebuilt"
    /\ Len(root.dirs) = 2
    /\ ~root.dirs[1].report_html
    /\ root.dirs[2].report_html
    /\ root.dirs[2].analysis_file.kind = "json"
    /\ Len(index_html) = 1
    /\ index_html[1].name = "20240102-a&lt;b"
    /\ index_html[1].status = "CRITICAL"

-----------------------------------------------------------------------------
(* Properties of the start of main (Spec) *)

NothingCollectedOrWritten ==
    /\ files = {}
    /\ index_html = NoValue
    /\ k6_health = NoHealth
    /\ prom_health = NoHealth
    /\ loki_health = NoHealth
    /\ ollama_health = NoHealth
    /\ inputs.prometheus = <<>>
    /\ inputs.loki = <<>>
    /\ inputs.ollama = NoValue

\* the invocation went past resolve_run_dir
RunDirAsked == pc \notin {"start"} \cup IndexBuilt

\* the abort of resolve_run_dir: it happens exactly when no run directory is
\* resolved, with SystemExit, before anything is collected or written
AbortsBeforeCollecting ==
    /\ pc = "aborted" =>
          /\ error.exc = "SystemExit"
          /\ resolve_run_dir(inputs.run_dir_arg, root).exc # ""
          /\ NothingCollectedOrWritten
    /\ (RunDirAsked /\ resolve_run_dir(inputs.run_dir_arg, root).exc # "") =>
          pc = "aborted"

\* C18: when no run directory can be resolved the invocation aborts with an
\* error before any collector or the endpoint is called and before any file
\* is written; an index build with no run folder to index ends in an error
\* too, never in a written index.
C18_NoInputIsAHardFailure ==
    /\ AbortsBeforeCollecting
    /\ (pc \in IndexBuilt /\ list_run_dirs(root) = <<>>) =>
          error.exc # "" /\ index_html = NoValue

-----------------------------------------------------------------------------
(* Properties of the run metadata (Spec) *)

\* metadata.json of the run folder after the invocation
PersistedMetadata ==
    IF "metadata.json" \in files
    THEN [kind |-> "json", value |-> metadata]
    ELSE inputs.metadata_file

\* the fields of metadata.json as the invocation found them
MetadataBefore ==
    IF inputs.metadata_file.kind = "json"
    THEN inputs.metadata_file.value
    ELSE Metadata(Absent, Absent, Absent, Absent, Absent)

\* C19: after a completed invocation on a run that has a metadata.json, the
\* persisted metadata holds the profile, the start and the end: the value it
\* had when the field was present, the resolved profile and the resolved
\* window otherwise.
C19_ResolvedFieldsArePersisted ==
    (pc = "done" /\ inputs.metadata_file.kind = "json") =>
        /\ PersistedMetadata.kind = "json"
        /\ PersistedMetadata.value.profile =
              SetDefault(MetadataBefore.profile, JStr(profile))
        /\ PersistedMetadata.value.start_utc =
              SetDefault(MetadataBefore.start_utc, isoformat(window.start))
        /\ PersistedMetadata.value.end_utc =
              SetDefault(MetadataBefore.end_utc, isoformat(window.end))
        /\ PersistedMetadata.value.start_epoch = MetadataBefore.start_epoch
        /\ PersistedMetadata.value.end_epoch = MetadataBefore.end_epoch

-----------------------------------------------------------------------------
(* Properties of the persisted Analysis (Spec) *)

PersistedStatusIsALevel ==
    Persisted => analysis.status.t = "str" /\ analysis.status.s \in Levels

\* C20: every persisted Analysis, from the model or from the fallback, has a
\* status among HEALTHY, WARNING, CRITICAL and a confidence that is a number
\* between 0 and 1.
C20_PersistedAnalysisIsWellFormed ==
    /\ PersistedStatusIsALevel
    /\ Persisted =>
          /\ "confidence" \in DOMAIN analysis
          /\ analysis.confidence.t = "num"
          /\ ~RLt(analysis.confidence, JInt(0))
          /\ ~RLt(JInt(1), analysis.confidence)

-----------------------------------------------------------------------------
(* Properties of the deterministic severity (SpecPolicy) *)

\* the number of critical write checks of the signals with pass rate < 0.20
SevereCheckCount ==
    Cardinality({i \in 1..Len(SignalChecks) : BelowFifth(SignalChecks[i].pass_rate)})

\* the number of conditions that trigger an escalation
TriggerCount == (IF RateExceedsResolved THEN 1 ELSE 0) + SevereCheckCount

SeverityIsExact ==
    /\ analysis.deterministic_status =
          (IF TriggerCount > 0 THEN "CRITICAL" ELSE "HEALTHY")
    /\ analysis.deterministic_status = "CRITICAL" <=> AttachedReasons # <<>>
    /\ Len(AttachedReasons) = TriggerCount

\* the threshold of the signals is a number other than 0
ThresholdIsNonZero ==
    /\ IsNumber(rate_limit_signals.http_req_failed_threshold)
    /\ rate_limit_signals.http_req_failed_threshold.n # 0

\* the severity is exact whenever the resolved threshold is not 0
SeverityIsExactAboveZero == (Merged /\ ThresholdIsNonZero) => SeverityIsExact

\* C22: the deterministic status is CRITICAL exactly when the observed
\* failure rate exists and is strictly above the resolved threshold or some
\* critical write check has a pass rate strictly below 0.20, and HEALTHY
\* otherwise; it is CRITICAL exactly when there are reasons, one per
\* triggering condition.
C22_DeterministicSeverityIsExact == Merged => SeverityIsExact

\* the threshold the policy compares with (line 372) and the one recorded
ComparedThreshold == PolicyThreshold(rate_limit_signals, profile)
RecordedThreshold == analysis.rate_limit_signals.http_req_failed_threshold

\* C24: the threshold the policy compares the observed failure rate with is
\* the threshold recorded in the attached signals, so that without a severe
\* write check the recorded rate and threshold explain the recorded
\* deterministic status.
C24_ComparedThresholdIsRecorded ==
    (Merged /\ analysis.rate_limit_signals.http_req_failed_rate # JNull) =>
        /\ REq(ComparedThreshold, RecordedThreshold)
        /\ SevereCheckCount = 0 =>
              (analysis.deterministic_status = "CRITICAL" <=>
                  RLt(RecordedThreshold, analysis.rate_limit_signals.http_req_failed_rate))

-----------------------------------------------------------------------------
(* Properties of the two readings of the failure rate (SpecPolicy) *)

HighlightsRate == highlights.http_req_failed_rate
SignalsRate == rate_limit_signals.http_req_failed_rate

\* both absent, or both the same number
SameRate(a, b) == IF a = JNull \/ b = JNull THEN a = b ELSE REq(a, b)

\* C25: the failure rate of the Highlights and the observed failure rate of
\* the signals are both absent or the same number, and a Highlights rate
\* above the resolved threshold comes with a CRITICAL deterministic status.
C25_HighlightsAndSignalsAgree ==
    /\ SignalsBuilt => SameRate(HighlightsRate, SignalsRate)
    /\ (/\ Merged
        /\ HighlightsRate # JNull
        /\ RLt(rate_limit_signals.http_req_failed_threshold, HighlightsRate)) =>
            analysis.deterministic_status = "CRITICAL"

-----------------------------------------------------------------------------
(* Properties of the persisted deterministic verdict (Spec) *)

\* the model answered with its own deterministic_status
ModelForgedPolicyKeys ==
    /\ Truthy(model_analysis)
    /\ model_analysis.t = "dict"
    /\ "deterministic_status" \in DOMAIN model_analysis

\* C23: the persisted deterministic status, reasons and signals are those
\* computed from the run summary, the profile and the collected logs alone:
\* whatever the model answered, its own copies of these keys included, two
\* invocations on the same summary, profile and logs persist the same three.
C23_DeterministicPartIgnoresTheModel ==
    Persisted =>
        /\ analysis.rate_limit_signals =
              build_rate_limit_signals(summary, profile, loki_payload)
        /\ analysis.deterministic_status =
              DeterministicStatus(build_rate_limit_signals(summary, profile, loki_payload),
                                  profile)
        /\ analysis.deterministic_reasons =
              DeterministicReasons(build_rate_limit_signals(summary, profile, loki_payload),
                                   profile)

\* C23 witness: the model answered CRITICAL for the deterministic status
\* with a reason and signals of its own, and the persisted ones are HEALTHY,
\* without reasons, and the signals of the run.
C23_Witness ==
    /\ Persisted
    /\ ModelForgedPolicyKeys
    /\ model_analysis.deterministic_status = "CRITICAL"
    /\ analysis.deterministic_status = "HEALTHY"
    /\ analysis.deterministic_reasons = <<>>
    /\ analysis.rate_limit_signals = rate_limit_signals

-----------------------------------------------------------------------------
(* Properties of the fallback assessment (Spec) *)

EndpointDegraded == ollama_health.status = "degraded"

\* the findings of the analysis name the error of the endpoint
FindingsNameEndpointError ==
    /\ analysis.findings.t = "list"
    /\ \E i \in 1..Len(analysis.findings.v) :
          /\ analysis.findings.v[i].src = "health"
          /\ analysis.findings.v[i].source = "ollama"
          /\ analysis.findings.v[i].error = ollama_health.error
          /\ analysis.findings.v[i].error # ""

\* C26: the fallback assessment is used exactly when the health of the
\* endpoint is degraded; when it is used its findings name the endpoint's
\* error, its own status is WARNING with confidence 0.35, and the final
\* status is WARNING or CRITICAL.
C26_FallbackExactlyWhenEndpointDegraded ==
    /\ ollama_health # NoHealth => (~Truthy(model_analysis) <=> EndpointDegraded)
    /\ analysis # NoValue =>
          /\ FallbackUsed <=> EndpointDegraded
          /\ FallbackUsed =>
                /\ FindingsNameEndpointError
                /\ default_ai_analysis(profile, HealthMap, highlights).status = JStr("WARNING")
                /\ analysis.confidence = JNum(35, 100)
                /\ analysis.status \in {JStr("WARNING"), JStr("CRITICAL")}

\* C26 witness: the endpoint answered with text that holds no JSON, every
\* other source answered, the fallback was persisted and the deterministic
\* policy raised it to CRITICAL.
C26_Witness ==
    /\ Persisted
    /\ FallbackUsed
    /\ ollama_health = Degraded("Ollama returned non-JSON response")
    /\ k6_health = Ok
    /\ prom_health = Ok
    /\ loki_health = Ok
    /\ analysis.status = JStr("CRITICAL")
    /\ Len(analysis.findings.v) = 2

-----------------------------------------------------------------------------
(* Properties of the run window (Spec) *)

\* a report was rendered from the metadata held in memory
ReportWritten == REPORTS \cap files # {}

\* C27: the start and the end the reports show (start_utc and end_utc of the
\* metadata) are the start and the end of the window the metrics and the
\* logs were queried with.
C27_ReportedWindowIsQueriedWindow ==
    ReportWritten =>
        /\ metadata.start_utc = isoformat(window.start)
        /\ metadata.end_utc = isoformat(window.end)

-----------------------------------------------------------------------------
(* Properties of the three renderers (Spec) *)

ListSections == {"findings", "bottlenecks", "likely_causes", "next_actions"}

\* the document prints the list, or "None" in its place when it is empty
ShowsList(document, key, items) ==
    /\ document[key].shown
    /\ document[key].items = items
    /\ items = <<>> => document[key].placeholder = "None"

\* C21: every written report shows the status and the summary, the health of
\* each source, the Highlights, the deterministic status and reasons, the
\* signal bundle and the four lists (findings, bottlenecks, likely causes,
\* next actions), an empty list as "None"; report.html and report.txt also
\* show a log sample of bounded length.
C21_RenderersShowEverySection ==
    \A r \in reports :
        /\ r.document.status = analysis.status.s
        /\ r.document.health = HealthMap
        /\ r.document.highlights = highlights
        /\ r.document.deterministic_status = analysis.deterministic_status
        /\ r.document.deterministic_reasons.shown
        /\ r.document.deterministic_reasons.items = analysis.deterministic_reasons
        /\ r.document.loki_rate_limit_entry_count =
              rate_limit_signals.loki_rate_limit_entry_count
        /\ r.document.critical_write_checks.shown
        /\ r.document.critical_write_checks.items =
              rate_limit_signals.critical_write_checks
        /\ r.document.likely_rate_limited_endpoints.shown
        /\ r.document.likely_rate_limited_endpoints.items =
              rate_limit_signals.likely_rate_limited_endpoints
        /\ \A key \in ListSections :
              ShowsList(r.document, key, ListOf(analysis, key))
        /\ r.name \in {"report.html", "report.txt"} =>
              /\ r.document.log_sample.shown
              /\ Len(r.document.log_sample.items) <= LOKI_SAMPLE_LINES

-----------------------------------------------------------------------------
(* monitor.py: the health poller *)

\* line 22: the environment variable CHECK_INTERVAL, "60" when it is not set
DEFAULT_CHECK_INTERVAL == <<"6", "0">>

\* int(text) for a text of digits and letters: ValueError unless all digits
IntOk(g) == g # <<>> /\ \A i \in 1..Len(g) : g[i] \in DigitChars
IntOf(g) == DigitsValue(g)

\* the environment: CHECK_INTERVAL not set, "30", "0", "abc"
EnvInputs ==
    {[set |-> FALSE, text |-> <<>>],
     [set |-> TRUE, text |-> <<"3", "0">>],
     [set |-> TRUE, text |-> <<"0">>],
     [set |-> TRUE, text |-> <<"a", "b", "c">>]}

\* a value of the "checks" object: the key is missing, or it holds a text
ComponentInputs == {Absent, JStr("healthy"), JStr("degraded"), JStr("down")}

\* What requests.get does: it raises, or it returns a response with a status
\* code and a body. The body is no JSON, a list, an object without checks,
\* an object whose checks is null, or an object with the two components.
ResponseInputs ==
    {[kind |-> k, status_code |-> 0, body |-> NoValue] :
        k \in {"connection_error", "timeout"}}
      \cup {[kind |-> "http", status_code |-> c, body |-> NoValue] :
              c \in {404, 500, 503}}
      \cup {[kind |-> "http", status_code |-> 200, body |-> b] :
              b \in {Invalid, JList(<<>>),
                     [t |-> "dict", checks |-> Absent],
                     [t |-> "dict", checks |-> JNull]}
                    \cup {[t |-> "dict",
                           checks |-> [t |-> "dict", database |-> d, redis |-> r]] :
                            d \in ComponentInputs, r \in ComponentInputs}}

LogRecord(level, event, detail) == [level |-> level, event |-> event, detail |-> detail]

\* checks.get(name, "unknown")
Component(checks, name) == IF checks[name] = Absent THEN "unknown" ELSE checks[name].s

\* lines 23-39: every exception is caught and logged
check_health(response) ==
    IF response.kind # "http"
    THEN LogRecord("error", "ERROR", <<response.kind>>)
    ELSE IF response.status_code # 200
    THEN LogRecord("error", "FAILED", <<"status">>)
    ELSE IF response.body = Invalid
    THEN LogRecord("error", "ERROR", <<"JSONDecodeError">>)
    ELSE IF response.body.t # "dict"
    THEN LogRecord("error", "ERROR", <<"AttributeError">>)
    ELSE IF response.body.checks # Absent /\ response.body.checks.t # "dict"
    THEN LogRecord("error", "ERROR", <<"AttributeError">>)
    ELSE LET checks == IF response.body.checks = Absent
                       THEN [t |-> "dict", database |-> Absent, redis |-> Absent]
                       ELSE response.body.checks
             db == Component(checks, "database")
             redis == Component(checks, "redis")
         IN  IF db = "healthy" /\ redis = "healthy"
             THEN LogRecord("info", "PASSED", <<db, redis>>)
             ELSE LogRecord("warning", "DEGRADED", <<db, redis>>)

InitMonitor ==
    /\ pc = "load"
    /\ inputs \in {[NoInputs EXCEPT !.env = e] : e \in EnvInputs}
    /\ summary = NoValue
    /\ profile = ""
    /\ k6_health = NoHealth
    /\ highlights = NoValue
    /\ prom_queries = <<>>
    /\ prom_health = NoHealth
    /\ prom_idx = 0
    /\ loki_payload = NoValue
    /\ loki_health = NoHealth
    /\ rate_limit_signals = NoValue
    /\ model_analysis = NoValue
    /\ ollama_health = NoHealth
    /\ analysis = NoValue
    /\ files = {}
    /\ error = NoError
    /\ metadata = NoValue
    /\ window = NoValue
    /\ root = NoValue
    /\ index_html = NoValue
    /\ reports = {}
    /\ CHECK_INTERVAL = NoValue
    /\ monitor_log = NoValue
    /\ lessons = <<>>
    /\ today = 0
    /\ known_issues = <<>>
    /\ known_issues_archive = <<>>

notMonitorVars ==
    <<inputs, summary, profile, collectorVars, loki_payload, rate_limit_signals,
      model_analysis, ollama_health, analysis, files, metadata, window, root,
      index_html, reports, issueVars>>

\* lines 21-22: the module reads its configuration; int() raises ValueError
LoadMonitor ==
    /\ pc = "load"
    /\ LET text == IF inputs.env.set THEN inputs.env.text
                   ELSE DEFAULT_CHECK_INTERVAL
       IN  IF IntOk(text)
           THEN /\ CHECK_INTERVAL' = JInt(IntOf(text))
                /\ pc' = "main"
                /\ UNCHANGED error
           ELSE /\ Crash("ValueError", "monitor")
                /\ UNCHANGED CHECK_INTERVAL
    /\ UNCHANGED <<monitor_log, notMonitorVars>>

\* line 42
StartMonitor ==
    /\ pc = "main"
    /\ monitor_log' = LogRecord("info", "Starting", <<>>)
    /\ pc' = "check"
    /\ UNCHANGED <<CHECK_INTERVAL, error, notMonitorVars>>

\* line 44: one health check
CheckHealth ==
    /\ pc = "check"
    /\ \E response \in ResponseInputs : monitor_log' = check_health(response)
    /\ pc' = "sleep"
    /\ UNCHANGED <<CHECK_INTERVAL, error, notMonitorVars>>

\* line 45: time.Sleep(CHECK_INTERVAL); the module time has sleep and no
\* attribute Sleep, so the attribute lookup raises AttributeError
Sleep ==
    /\ pc = "sleep"
    /\ Crash("AttributeError", "monitor")
    /\ UNCHANGED <<CHECK_INTERVAL, monitor_log, notMonitorVars>>

NextMonitor == LoadMonitor \/ StartMonitor \/ CheckHealth \/ Sleep

\* the interpreter keeps running the loop while a statement can run
SpecMonitor == InitMonitor /\ [][NextMonitor]_vars /\ WF_vars(NextMonitor)

-----------------------------------------------------------------------------
(* Properties of the health poller (SpecMonitor) *)

\* no outcome of a health check raises out of check_health
ChecksNeverRaise == error.in # "check_health"

\* C28: once started the poller checks, waits and checks again for ever:
\* every health check is followed by the wait and then by another check.
C28_HealthChecksRecur == (pc = "check") ~> (pc = "sleep" /\ <>(pc = "check"))

-----------------------------------------------------------------------------
(* agent_memory.py: the known issues generated from the lessons.  Dates are *)
(* day numbers; a lesson file is its position in the sorted directory.      *)

\* the largest number of lesson files in docs/lessons
MaxLessons == 2

\* line 309: timedelta(days=45)
ISSUE_LIFETIME_DAYS == 45

\* str.lower() on the status strings of the inputs
Lower(s) ==
    CASE s = "Monitoring" -> "monitoring"
      [] s = "RESOLVED" -> "resolved"
      [] OTHER -> s

\* the date text in a file name: a calendar date, a text of the same shape
\* that names no calendar date (2024-13-45), or no such text
DatedName(day) == [kind |-> "date", day |-> day]
MisdatedName == [kind |-> "invalid", day |-> 0]
UndatedName == [kind |-> "none", day |-> 0]

\* A lesson file: the date text of its name and two keys of its front matter.
Lesson(name, severity, status) ==
    [name |-> name, severity |-> severity, status |-> status]

SeverityInputs == {JStr("CRITICAL"), JStr("high"), JStr("MEDIUM")}
LessonStatusInputs ==
    {Absent, JStr("active"), JStr("Monitoring"), JStr("resolved"),
     JStr("wontfix")}
LessonInputs ==
    {Lesson(n, sev, st) : n \in {DatedName(0), UndatedName},
                          sev \in SeverityInputs, st \in LessonStatusInputs}
        \cup {Lesson(MisdatedName, JStr("CRITICAL"), JStr("active"))}
TodayInputs == {1, 45, 46}

\* lines 104-108: the date of the file name, or today's date
parse_report_date(name, t) ==
    IF name.kind = "none" THEN DatedName(t) ELSE name

\* line 301: str(fm.get("severity", "")).upper()
SeverityOf(lesson) ==
    IF lesson.severity = Absent THEN "" ELSE Upper(lesson.severity.s)

\* line 305: str(fm.get("status", "active")).lower()
StatusOf(lesson) ==
    IF lesson.status = Absent THEN "active" ELSE Lower(lesson.status.s)

\* lines 302-303: only CRITICAL and HIGH lessons become issues
IsIssue(lesson) == SeverityOf(lesson) \in {"CRITICAL", "HIGH"}

\* lines 307-321: the issue of lesson i
Issue(i, lesson, t) ==
    LET opened == parse_report_date(lesson.name, t).day
    IN  [id |-> i, Status |-> StatusOf(lesson), Opened |-> opened,
         ExpiresOn |-> opened + ISSUE_LIFETIME_DAYS]

\* lines 324-329: the list an issue is appended to
ListOfIssue(issue, t) ==
    IF issue.Status = "resolved" /\ t >= issue.ExpiresOn THEN "archived"
    ELSE IF issue.Status \in {"active", "monitoring"} /\ t <= issue.ExpiresOn
         THEN "active"
         ELSE "archived"

\* line 308: date.fromisoformat raises ValueError on a text that names no date
RECURSIVE FromIsoFormatRaises(_)
FromIsoFormatRaises(ls) ==
    IF ls = <<>> THEN FALSE
    ELSE \/ IsIssue(Head(ls)) /\ Head(ls).name.kind = "invalid"
         \/ FromIsoFormatRaises(Tail(ls))

\* lines 299-329: the issues appended to the given list, in directory order
RECURSIVE Appended(_, _, _, _)
Appended(ls, i, t, list) ==
    IF i > Len(ls) THEN <<>>
    ELSE LET issue == Issue(i, ls[i], t)
         IN  (IF IsIssue(ls[i]) /\ ListOfIssue(issue, t) = list
              THEN <<issue>> ELSE <<>>) \o Appended(ls, i + 1, t, list)

\* where sorted(..., reverse=True) puts an issue: after the issues opened
\* on the same day or later
RECURSIVE InsertByOpened(_, _)
InsertByOpened(sorted, issue) ==
    IF sorted = <<>> THEN <<issue>>
    ELSE IF Head(sorted).Opened >= issue.Opened
         THEN <<Head(sorted)>> \o InsertByOpened(Tail(sorted), issue)
         ELSE <<issue>> \o sorted

\* lines 345, 369: sorted(issues, key=Opened, reverse=True)
RECURSIVE SortedByOpened(_)
SortedByOpened(issues) ==
    IF issues = <<>> THEN <<>>
    ELSE InsertByOpened(SortedByOpened(SubSeq(issues, 1, Len(issues) - 1)),
                        issues[Len(issues)])

RECURSIVE LessonDirs(_)
LessonDirs(n) ==
    IF n = 0 THEN {<<>>}
    ELSE LessonDirs(n - 1)
         \cup {Append(d, l) : d \in {x \in LessonDirs(n - 1) : Len(x) = n - 1},
                              l \in LessonInputs}

InitIssues ==
    /\ pc = "regenerate"
    /\ inputs = NoInputs
    /\ summary = NoValue
    /\ profile = NoValue
    /\ k6_health = NoHealth
    /\ highlights = NoValue
    /\ prom_queries = <<>>
    /\ prom_health = NoHealth
    /\ prom_idx = 0
    /\ loki_payload = NoValue
    /\ loki_health = NoHealth
    /\ rate_limit_signals = NoValue
    /\ model_analysis = NoValue
    /\ ollama_health = NoHealth
    /\ analysis = NoValue
    /\ files = {}
    /\ error = NoError
    /\ metadata = NoValue
    /\ window = NoValue
    /\ root = NoValue
    /\ index_html = NoValue
    /\ reports = {}
    /\ CHECK_INTERVAL = NoValue
    /\ monitor_log = NoValue
    /\ lessons \in LessonDirs(MaxLessons)
    /\ today \in TodayInputs
    /\ known_issues = <<>>
    /\ known_issues_archive = <<>>

notIssueVars ==
    <<inputs, summary, profile, collectorVars, loki_payload, rate_limit_signals,
      model_analysis, ollama_health, analysis, files, metadata, window, root,
      index_html, reports, monitorVars>>

\* lines 294-383: regenerate_known_issues writes both documents, or raises
\* before it writes either
RegenerateKnownIssues ==
    /\ pc = "regenerate"
    /\ IF FromIsoFormatRaises(lessons)
       THEN /\ Crash("ValueError", "regenerate_known_issues")
            /\ UNCHANGED <<known_issues, known_issues_archive>>
       ELSE /\ known_issues' =
                   SortedByOpened(Appended(lessons, 1, today, "active"))
            /\ known_issues_archive' =
                   SortedByOpened(Appended(lessons, 1, today, "archived"))
            /\ pc' = "regenerated"
            /\ UNCHANGED error
    /\ UNCHANGED <<lessons, today, notIssueVars>>

NextIssues == RegenerateKnownIssues

SpecIssues == InitIssues /\ [][NextIssues]_vars

-----------------------------------------------------------------------------
(* Properties of the known issues (SpecIssues) *)

\* how many entries of a document are the issue of lesson i
RECURSIVE Entries(_, _)
Entries(document, i) ==
    IF document = <<>> THEN 0
    ELSE (IF Head(document).id = i THEN 1 ELSE 0) + Entries(Tail(document), i)

\* the day lesson i was opened, and the day its issue expires
OpenedOn(i) == parse_report_date(lessons[i].name, today).day
ExpiresOn(i) == OpenedOn(i) + ISSUE_LIFETIME_DAYS

\* every CRITICAL or HIGH lesson is in exactly one document, other lessons in
\* neither, and the active document holds exactly the active or monitoring
\* issues that have not passed their Expires-On
IssuesPartitionLessons ==
    pc = "regenerated" =>
        \A i \in 1..Len(lessons) :
            /\ Entries(known_issues, i) + Entries(known_issues_archive, i)
                   = IF IsIssue(lessons[i]) THEN 1 ELSE 0
            /\ Entries(known_issues, i) = 1
                   <=> /\ IsIssue(lessons[i])
                       /\ StatusOf(lessons[i]) \in {"active", "monitoring"}
                       /\ today <= ExpiresOn(i)

\* both documents list the most recently opened issue first
DocumentsAreSorted ==
    \A d \in {known_issues, known_issues_archive} :
        \A k \in 1..(Len(d) - 1) : d[k].Opened >= d[k + 1].Opened

\* C29: every CRITICAL or HIGH lesson is in exactly one of the active list and
\* the archive; it is active exactly while its status is active or monitoring
\* and today is not past its Expires-On (opened + 45 days); and a resolved or
\* expired issue is in the archive only once 45 days have passed since it was
\* opened.
C29_ResolvedIssuesAreArchivedAfterLifetime ==
    pc = "regenerated" =>
        \A i \in 1..Len(lessons) :
            IsIssue(lessons[i]) =>
                /\ Entries(known_issues, i) + Entries(known_issues_archive, i) = 1
                /\ Entries(known_issues, i) = 1
                       <=> /\ StatusOf(lessons[i]) \in {"active", "monitoring"}
                           /\ today <= ExpiresOn(i)
                /\ (/\ Entries(known_issues_archive, i) = 1
                    /\ (StatusOf(lessons[i]) = "resolved" \/ today > ExpiresOn(i)))
                       => today >= OpenedOn(i) + ISSUE_LIFETIME_DAYS

=============================================================================
